---- MODULE Spec2Model ----
\* Funding-rate logger: the per-tick orchestrator (log_funding_snapshot), the
\* funding clock, the snapshot cache, the multi-timeframe fetcher and the
\* driver loop of main.py, as a state machine over a discrete wall clock.
EXTENDS Integers, Sequences, FiniteSets, TLC

\* ---------------------------------------------------------------------------
\* Bounds of the model
\* ---------------------------------------------------------------------------

\* Clock resolution: clock units per minute (datetime.now() has microseconds;
\* every threshold the code compares against is a whole number of minutes).
SubPerMin == 2

\* The model clock runs over StartMinute .. StartMinute + HorizonMinutes,
\* minutes counted from 00:00 of day 0.  The interval holds an ordinary hour
\* change (22:xx -> 23:00) and the change of day (23:xx -> 00:00).
HorizonMinutes == 122

\* top_n of the configuration handed to log_funding_snapshot.
ConfigTopN == 2

\* Latest the ranker's own clock read can lag behind the tick's clock read.
MaxLag == 1

\* Longest the driver loop oversleeps its time.sleep(60), in clock units.
MaxOversleep == 2

\* ---------------------------------------------------------------------------
\* Wall clock
\* ---------------------------------------------------------------------------

MinutesPerHour == 60

HoursPerDay == 24

StartMinute == (1 * HoursPerDay + 22) * MinutesPerHour + 29

HourLen == MinutesPerHour * SubPerMin

DayLen == HoursPerDay * HourLen

StartTime == StartMinute * SubPerMin

MaxTime == (StartMinute + HorizonMinutes) * SubPerMin

Times == StartTime .. MaxTime

Minutes(n) == n * SubPerMin

\* datetime fields of an instant t
DayOf(t) == t \div DayLen

HourOf(t) == (t % DayLen) \div HourLen

MinuteOf(t) == (t % HourLen) \div SubPerMin

\* datetime(day, h, 0, 0)
HourInstant(day, h) == day * DayLen + h * HourLen

AbsVal(x) == IF x < 0 THEN -x ELSE x

Min2(a, b) == IF a <= b THEN a ELSE b

\* ---------------------------------------------------------------------------
\* Funding clock (pipeline/funding_rate_logger.py)
\* ---------------------------------------------------------------------------

\* float('inf') of sort_key: larger than every hour difference 0..23
Infinity == 24

\* funding_hours with the boundary hour of the previous day taken from the
\* reference day (today in place of prev_day at line 265)
funding_hours_sameday(reference_time) ==
    [i \in 1 .. HoursPerDay + 2 |->
        IF i <= HoursPerDay THEN HourInstant(DayOf(reference_time), i - 1)
        ELSE IF i = HoursPerDay + 1
             THEN HourInstant(DayOf(reference_time), HoursPerDay - 1)
             ELSE HourInstant(DayOf(reference_time) + 1, 0)]

\* times, in the order the function builds the list: the 24 hours of the
\* reference day, 23:00 of the previous day, 00:00 of the next day
funding_hours(reference_time) ==
    [i \in 1 .. HoursPerDay + 2 |->
        IF i <= HoursPerDay THEN HourInstant(DayOf(reference_time), i - 1)
        ELSE IF i = HoursPerDay + 1
             THEN HourInstant(DayOf(reference_time) - 1, HoursPerDay - 1)
             ELSE HourInstant(DayOf(reference_time) + 1, 0)]

\* sort_key without the branch that sends the instants more than an hour
\* in the past to the end (lines 276-278)
sort_key_flat(dt, reference_time) ==
    AbsVal(HourOf(dt) - HourOf(reference_time))

sort_key(dt, reference_time) ==
    LET hour_diff == AbsVal(HourOf(dt) - HourOf(reference_time))
    IN  IF (dt < reference_time /\ reference_time - dt <= HourLen)
           \/ dt >= reference_time
        THEN hour_diff
        ELSE Infinity

\* sorted(seq, key): Python's sort is stable (f @@ <<>> is f, as an explicit table)
StableSort(seq, keys) ==
    LET n == Len(seq)
        ks == keys @@ <<>>
        position == [j \in 1 .. n |->
                    1 + Cardinality({k \in 1 .. n :
                            \/ ks[k] < ks[j]
                            \/ ks[k] = ks[j] /\ k < j})] @@ <<>>
    IN  [i \in 1 .. n |-> seq[CHOOSE j \in 1 .. n : position[j] = i]] @@ <<>>

get_next_funding_times(reference_time) ==
    LET key(dt) == sort_key(dt, reference_time)
        hours == funding_hours(reference_time)
    IN  StableSort(hours, [j \in 1 .. Len(hours) |-> key(hours[j])])

\* min(seq, key): the first element of seq whose key is minimal
MinByKey(seq, keys) ==
    LET n == Len(seq)
        ks == keys @@ <<>>
        i == CHOOSE j \in 1 .. n :
                /\ \A k \in 1 .. n : ks[j] <= ks[k]
                /\ \A k \in 1 .. j - 1 : ks[k] > ks[j]
    IN  seq[i]

\* next_funding of log_funding_snapshot
next_funding(funding_times, now_) ==
    LET key(ft) == AbsVal(ft - now_)
    IN  MinByKey(funding_times,
                 [j \in 1 .. Len(funding_times) |-> key(funding_times[j])])

\* The two functions of the clock, tabulated over the model's clock values
FundingTimesAt == [t \in Times |-> get_next_funding_times(t)] @@ <<>>

NextFundingAt == [t \in Times |-> next_funding(FundingTimesAt[t], t)] @@ <<>>

\* ---------------------------------------------------------------------------
\* Python values that flow between ranker, cache and fetcher
\* ---------------------------------------------------------------------------

\* A str is a sequence of pieces: a piece is one character the code looks at
\* (a digit, ',', '.', '-', '+', ':', '_', 'T', ' ') or a run of other
\* characters kept whole
AAA_USDT == <<"AAA_USDT">>

BBB_USDT == <<"BBB_USDT">>

CCC_USDT == <<"CCC_USDT">>

Symbols == {AAA_USDT, BBB_USDT}

\* Funding rates are floats that are whole multiples of 1 / RateScale
RateScale == 10000

PyFloat(units) == [type |-> "float", units |-> units]

PyInt(n) == [type |-> "int", units |-> n * RateScale]

PyNone == [type |-> "NoneType"]

\* the funding rates of the records in the tests: 0.001 and -0.0008
Rates == {PyFloat(10), PyFloat(0 - 8)}

NoRate == PyNone

\* a str element
PyStr(s) == [kind |-> "str", symbol |-> s, fundingRate |-> NoRate]

\* a dict element {'symbol': s, 'fundingRate': r}
PyDict(s, r) == [kind |-> "dict", symbol |-> s, fundingRate |-> r]

IsDict(x) == x.kind = "dict"

IsStr(x) == x.kind = "str"

Digits == <<"0", "1", "2", "3", "4", "5", "6", "7", "8", "9">>

IsDigit(c) == \E d \in 1 .. 10 : Digits[d] = c

DigitOf(c) == (CHOOSE d \in 1 .. 10 : Digits[d] = c) - 1

\* str(n) of an int n >= 0
RECURSIVE NatText(_)
NatText(n) ==
    IF n < 10 THEN <<Digits[n + 1]>>
    ELSE NatText(n \div 10) \o <<Digits[(n % 10) + 1]>>

\* int(text) of a text of digits
RECURSIVE NatOf(_)
NatOf(text) ==
    IF text = <<>> THEN 0
    ELSE NatOf(SubSeq(text, 1, Len(text) - 1)) * 10 + DigitOf(text[Len(text)])

AllDigits(text) == \A i \in 1 .. Len(text) : IsDigit(text[i])

\* n written with at least width digits
RECURSIVE ZeroPad(_, _)
ZeroPad(text, width) ==
    IF Len(text) >= width THEN text ELSE ZeroPad(<<"0">> \o text, width)

\* the fractional digits of a float, shortest form: no trailing zero beyond
\* the first digit
RECURSIVE StripZeros(_)
StripZeros(text) ==
    IF Len(text) > 1 /\ text[Len(text)] = "0"
    THEN StripZeros(SubSeq(text, 1, Len(text) - 1))
    ELSE text

\* 10 ^ n
RECURSIVE Pow10(_)
Pow10(n) == IF n = 0 THEN 1 ELSE 10 * Pow10(n - 1)

\* the number of fractional digits RateScale allows
FracWidth == Len(NatText(RateScale)) - 1

\* repr of the float units / RateScale (positional notation: every rate of
\* the model that is not zero is at least 1e-4)
FloatText(units) ==
    (IF units < 0 THEN <<"-">> ELSE <<>>)
    \o NatText(AbsVal(units) \div RateScale) \o <<".">>
    \o StripZeros(ZeroPad(NatText(AbsVal(units) % RateScale), FracWidth))

\* f"{value}"
FormatValue(value) ==
    IF value.type = "float" THEN FloatText(value.units)
    ELSE IF value.type = "int"
    THEN (IF value.units < 0 THEN <<"-">> ELSE <<>>)
         \o NatText(AbsVal(value.units) \div RateScale)
    ELSE <<"None">>

\* text.strip()
RECURSIVE Strip(_)
Strip(text) ==
    IF text # <<>> /\ Head(text) = " " THEN Strip(Tail(text))
    ELSE IF text # <<>> /\ text[Len(text)] = " "
    THEN Strip(SubSeq(text, 1, Len(text) - 1))
    ELSE text

\* text.split(sep)
RECURSIVE Split(_, _)
Split(text, sep) ==
    IF \E i \in 1 .. Len(text) : text[i] = sep
    THEN LET i == CHOOSE j \in 1 .. Len(text) :
                    text[j] = sep /\ \A k \in 1 .. j - 1 : text[k] # sep
         IN  <<SubSeq(text, 1, i - 1)>> \o Split(SubSeq(text, i + 1, Len(text)), sep)
    ELSE <<text>>

\* text.replace(old, new, count) for one-character old and new; count < 0
\* replaces every occurrence
RECURSIVE Replace(_, _, _, _)
Replace(text, old, new, count) ==
    IF text = <<>> \/ count = 0 THEN text
    ELSE IF Head(text) = old
    THEN <<new>> \o Replace(Tail(text), old, new, count - 1)
    ELSE <<Head(text)>> \o Replace(Tail(text), old, new, count)

\* float(text): an optional sign, digits and an optional fraction; every
\* other text raises ValueError
ParseFloat(text) ==
    LET body == Strip(text)
        neg == body # <<>> /\ Head(body) = "-"
        unsigned == IF body # <<>> /\ Head(body) \in {"-", "+"} THEN Tail(body) ELSE body
        parts == Split(unsigned, ".")
        whole == parts[1]
        frac == IF Len(parts) = 2 THEN parts[2] ELSE <<>>
        ok == /\ Len(parts) <= 2
              /\ AllDigits(whole) /\ AllDigits(frac)
              /\ Len(whole) + Len(frac) > 0
              /\ Len(frac) <= FracWidth
        magnitude == NatOf(whole) * RateScale + NatOf(frac) * Pow10(FracWidth - Len(frac))
    IN  IF ok
        THEN [raised |-> "none", value |-> PyFloat(IF neg THEN 0 - magnitude ELSE magnitude)]
        ELSE [raised |-> "ValueError", value |-> PyNone]

\* ---------------------------------------------------------------------------
\* Snapshot cache (utils/funding_rate_cache.py)
\* ---------------------------------------------------------------------------

\* The model's calendar: day 0 is 2025-01-01, and the clock stays in January
DateText(day) == <<"2", "0", "2", "5", "-", "0", "1", "-">> \o ZeroPad(NatText(day + 1), 2)

\* funding_time.isoformat() of a datetime in UTC without microseconds
isoformat(t) ==
    DateText(DayOf(t)) \o <<"T">>
    \o ZeroPad(NatText(HourOf(t)), 2) \o <<":">>
    \o ZeroPad(NatText(MinuteOf(t)), 2) \o <<":">>
    \o ZeroPad(NatText(((t % SubPerMin) * 60) \div SubPerMin), 2)
    \o <<"+", "0", "0", ":", "0", "0">>

\* CacheFileName with the date only: one file per day
CacheFileName_daily(funding_time) ==
    <<"top3symbols", "_">> \o DateText(DayOf(funding_time)) \o <<".txt">>

\* top3symbols_<isoformat with ':' replaced by '-'>.txt
CacheFileName(funding_time) ==
    <<"top3symbols", "_">> \o Replace(isoformat(funding_time), ":", "-", 0 - 1) \o <<".txt">>

\* the file names of the settlement instants of the model clock, tabulated
CacheFileNameAt ==
    [k \in {h * HourLen : h \in StartTime \div HourLen - 1 .. MaxTime \div HourLen + 1}
        |-> CacheFileName(k)] @@ <<>>

\* Index of the first element of symbols_data that is not a dict
\* (data['symbol'] raises TypeError on it), Len + 1 when there is none
FirstNonDict(symbols_data) ==
    IF \E i \in 1 .. Len(symbols_data) : ~IsDict(symbols_data[i])
    THEN CHOOSE i \in 1 .. Len(symbols_data) :
            /\ ~IsDict(symbols_data[i])
            /\ \A j \in 1 .. i - 1 : IsDict(symbols_data[j])
    ELSE Len(symbols_data) + 1

\* the line f"{symbol},{funding_rate}" of one record
CacheLine(data) == data.symbol \o <<",">> \o FormatValue(data.fundingRate)

\* cache_top_symbols with the file opened in append mode
cache_top_symbols_append(dir, symbols_data, funding_time) ==
    LET stop == FirstNonDict(symbols_data)
        name == CacheFileNameAt[funding_time]
        lines == [i \in 1 .. stop - 1 |-> CacheLine(symbols_data[i])]
    IN  [dir |-> [f \in DOMAIN dir \cup {name} |->
                    IF f = name
                    THEN (IF name \in DOMAIN dir THEN dir[name] ELSE <<>>) \o lines
                    ELSE dir[f]],
         raised |-> IF stop <= Len(symbols_data) THEN "TypeError" ELSE "none"]

\* cache_top_symbols: open(file_path, 'w') truncates or creates the file, then
\* one line "symbol,fundingRate" per element.  Returns the directory
\* afterwards and the exception.
cache_top_symbols(dir, symbols_data, funding_time) ==
    LET stop == FirstNonDict(symbols_data)
        name == CacheFileNameAt[funding_time]
        lines == [i \in 1 .. stop - 1 |-> CacheLine(symbols_data[i])]
    IN  [dir |-> [f \in DOMAIN dir \cup {name} |-> IF f = name THEN lines ELSE dir[f]],
         raised |-> IF stop <= Len(symbols_data) THEN "TypeError" ELSE "none"]

\* lines 70-79 with the two fields read in the other order
ParseLine_swapped(line) ==
    LET parts == Split(Strip(line), ",")
        parsed == ParseFloat(parts[1])
    IN  IF Len(parts) >= 2
        THEN <<PyDict(parts[2], IF parsed.raised = "none" THEN parsed.value ELSE PyInt(0))>>
        ELSE IF Len(parts) = 1 /\ parts[1] # <<>> THEN <<PyDict(parts[1], PyInt(0))>>
        ELSE <<>>

\* ParseLine without the branch for a line that holds a symbol only
ParseLine_nolegacy(line) ==
    LET parts == Split(Strip(line), ",")
        parsed == ParseFloat(parts[2])
    IN  IF Len(parts) >= 2
        THEN <<PyDict(parts[1], IF parsed.raised = "none" THEN parsed.value ELSE PyInt(0))>>
        ELSE <<>>

\* one line of the file, as load_cached_symbols reads it (lines 70-79)
ParseLine(line) ==
    LET parts == Split(Strip(line), ",")
        parsed == ParseFloat(parts[2])
    IN  IF Len(parts) >= 2
        THEN <<PyDict(parts[1], IF parsed.raised = "none" THEN parsed.value ELSE PyInt(0))>>
        ELSE IF Len(parts) = 1 /\ parts[1] # <<>> THEN <<PyDict(parts[1], PyInt(0))>>
        ELSE <<>>

RECURSIVE ParseLines(_)
ParseLines(lines) ==
    IF lines = <<>> THEN <<>>
    ELSE ParseLine(Head(lines)) \o ParseLines(Tail(lines))

\* load_cached_symbols without the test file_path.exists()
LoadCachedSymbols_noexists(dir, funding_time) ==
    IF CacheFileNameAt[funding_time] \in DOMAIN dir
    THEN [result |-> ParseLines(dir[CacheFileNameAt[funding_time]]), raised |-> "none"]
    ELSE [result |-> <<>>, raised |-> "FileNotFoundError"]

\* load_cached_symbols with what it raises: [] when the file does not exist
LoadCachedSymbols(dir, funding_time) ==
    IF CacheFileNameAt[funding_time] \in DOMAIN dir
    THEN [result |-> ParseLines(dir[CacheFileNameAt[funding_time]]), raised |-> "none"]
    ELSE [result |-> <<>>, raised |-> "none"]

load_cached_symbols(dir, funding_time) == LoadCachedSymbols(dir, funding_time).result

\* Two-digit fields of a date or a time: <<>> unless text is digits in pairs
RECURSIVE Pairs(_)
Pairs(text) ==
    IF Len(text) < 2 THEN <<>>
    ELSE <<NatOf(SubSeq(text, 1, 2))>> \o Pairs(SubSeq(text, 3, Len(text)))

\* The numeric fields of an ISO 8601 date, time or offset, written basic
\* ("220000") or extended with the separator sep ("22:00:00"); <<>> when the
\* text is neither
IsoFields(text, sep) ==
    LET fields == Split(text, sep)
        extended == /\ Len(fields) > 1
                    /\ \A i \in 1 .. Len(fields) :
                          AllDigits(fields[i]) /\ Len(fields[i]) = (IF sep = "-" /\ i = 1 THEN 4 ELSE 2)
        basic == Len(fields) = 1 /\ AllDigits(text) /\ Len(text) % 2 = 0 /\ text # <<>>
    IN  IF extended
        THEN (IF sep = "-"
              THEN Pairs(fields[1]) \o [i \in 1 .. Len(fields) - 1 |-> NatOf(fields[i + 1])]
              ELSE [i \in 1 .. Len(fields) |-> NatOf(fields[i])])
        ELSE IF basic THEN Pairs(text)
        ELSE <<>>

\* datetime.fromisoformat(text) of Python 3.11 for the dates of the model's
\* calendar (January 2025): a date, then optionally 'T', a time of day
\* hh[:mm[:ss]] and an offset +hh[:mm], each basic or extended.  ValueError
\* for every other text; aware tells whether the datetime has a tzinfo.
fromisoformat(text) ==
    LET halves == Split(text, "T")
        date == IsoFields(halves[1], "-")
        rest == IF Len(halves) = 2 THEN Split(halves[2], "+") ELSE << <<"0", "0">> >>
        clock == IsoFields(rest[1], ":")
        aware == Len(rest) = 2
        zone == IF aware THEN IsoFields(rest[2], ":") ELSE <<0>>
        field(fields, i) == IF i <= Len(fields) THEN fields[i] ELSE 0
        ok == /\ Len(halves) <= 2 /\ Len(rest) <= 2
              /\ Len(date) = 4 /\ date[1] = 20 /\ date[2] = 25 /\ date[3] = 1
              /\ date[4] >= 1 /\ date[4] <= 31
              /\ Len(clock) >= 1 /\ Len(clock) <= 3
              /\ field(clock, 1) < HoursPerDay
              /\ field(clock, 2) < MinutesPerHour /\ field(clock, 3) < 60
              /\ Len(zone) >= 1 /\ Len(zone) <= 2
              /\ field(zone, 1) < HoursPerDay /\ field(zone, 2) < MinutesPerHour
        local == (date[4] - 1) * DayLen + field(clock, 1) * HourLen
                 + field(clock, 2) * SubPerMin + (field(clock, 3) * SubPerMin) \div 60
        offset == field(zone, 1) * HourLen + field(zone, 2) * SubPerMin
    IN  IF ok THEN [raised |-> "none", aware |-> aware, instant |-> local - offset]
        ELSE [raised |-> "ValueError", aware |-> FALSE, instant |-> 0]

\* cache_dir.glob("top3symbols_*.txt")
GlobMatches(name) ==
    /\ Len(name) >= 3
    /\ name[1] = "top3symbols" /\ name[2] = "_"
    /\ name[Len(name)] = ".txt"

\* Lines 99-103 for one file: the timestamp of the name put back into ISO
\* form by the four replace calls and parsed; the file is unlinked when the
\* parsed time is before the cutoff.  A ValueError of the parse and the
\* TypeError of comparing a naive datetime with the aware cutoff are caught
\* at line 105.
CleanupDeletes(name, cutoff) ==
    LET stem == SubSeq(name, 1, Len(name) - 1)
        pieces == Split(stem, "_")
        timestamp_str == pieces[Len(pieces)]
        iso_str == Replace(Replace(Replace(Replace(timestamp_str, "-", ":", 2),
                                           "-", ":", 0 - 1),
                                   "+", "+", 0 - 1),
                           "-", ":", 1)
        file_time == fromisoformat(iso_str)
    IN  /\ file_time.raised = "none"
        /\ file_time.aware
        /\ file_time.instant < cutoff

\* cleanup_old_caches that unlinks exactly the matched files the code leaves
\* (unparsable, naive or not older than the cutoff)
cleanup_old_caches_unparsed(dir, now_, max_age_hours) ==
    LET cutoff == now_ - max_age_hours * HourLen
        kept == {name \in DOMAIN dir :
                    ~GlobMatches(name) \/ CleanupDeletes(name, cutoff)}
    IN  [dir |-> [name \in kept |-> dir[name]], raised |-> "none"]

\* cleanup_old_caches(cache_dir, max_age_hours) at clock value now_: the
\* directory afterwards and the exception
cleanup_old_caches(dir, now_, max_age_hours) ==
    LET cutoff == now_ - max_age_hours * HourLen
        kept == {name \in DOMAIN dir :
                    ~GlobMatches(name) \/ ~CleanupDeletes(name, cutoff)}
    IN  [dir |-> [name \in kept |-> dir[name]], raised |-> "none"]

\* ---------------------------------------------------------------------------
\* Exchange collaborator (api/contract_client.py)
\* ---------------------------------------------------------------------------

\* A funding quote as the exchange returns it: fundingRate in units of
\* 1 / RateScale, nextSettleTime an instant of the model clock, 0 when the
\* field is absent
Quote(s, r, nst) ==
    [symbol |-> s, fundingRate |-> r, nextSettleTime |-> nst, rate |-> "number"]

\* A quote whose fundingRate is missing ("missing") or is no number ("text")
BadQuote(s, kind, nst) == [Quote(s, 0, nst) EXCEPT !.rate = kind]

\* What one request does: status "ok" (the envelope carries data), "error"
\* (an envelope with success = false) or "raise" (transport error)
Response(status, data) == [status |-> status, data |-> data]

\* The exchange as one ranking call sees it: the answer of contract/detail,
\* of funding_rate/<symbol> in the bulk fetch and in the per-symbol lookup,
\* and whether asyncio.run(...) of the bulk fetch raises
Client(listing, quotes, bulk, lookup) ==
    [listing |-> listing, quotes |-> quotes, bulk |-> bulk, lookup |-> lookup]

\* get_available_perpetual_symbols with a built-in list when the request fails
get_available_perpetual_symbols_fallback(listing) ==
    IF listing.status # "ok" THEN <<AAA_USDT, BBB_USDT, CCC_USDT>>
    ELSE LET usdt(entry) == entry.quoteCoin = "USDT"
             kept == SelectSeq(listing.data, usdt)
         IN  [i \in 1 .. Len(kept) |-> kept[i].symbol]

\* get_available_perpetual_symbols: the symbols of the USDT entries, in the
\* order of the answer; [] for an error envelope (line 170) and for an
\* exception (lines 193-195)
get_available_perpetual_symbols(listing) ==
    IF listing.status # "ok" THEN <<>>
    ELSE LET usdt(entry) == entry.quoteCoin = "USDT"
             kept == SelectSeq(listing.data, usdt)
         IN  [i \in 1 .. Len(kept) |-> kept[i].symbol]

\* _fetch_funding_rate: the data of the answer, {} for an error envelope and
\* for an exception; as the list of what _gather_funding_rates keeps of it
fetch_funding_rate(response) ==
    IF response.status = "ok" THEN <<response.data>> ELSE <<>>

\* _gather_funding_rates: the quotes of the symbols in request order, the
\* empty results filtered out (line 93)
RECURSIVE gather_funding_rates(_, _)
gather_funding_rates(symbols, quotes) ==
    IF symbols = <<>> THEN <<>>
    ELSE fetch_funding_rate(quotes[Head(symbols)])
         \o gather_funding_rates(Tail(symbols), quotes)

\* get_all_funding_rates_async: [] when asyncio.run raises (lines 218-220)
get_all_funding_rates_async(symbols, client) ==
    IF client.bulk = "raise" THEN <<>>
    ELSE gather_funding_rates(symbols, client.quotes)

\* get_top_funding_rates: sorted by abs(float(fundingRate)), reverse=True
\* (stable), cut to top_n; the key raises KeyError or ValueError for a quote
\* without a numeric fundingRate, and lines 240-242 return []
get_top_funding_rates(symbols, client, top_n) ==
    LET all_rates == get_all_funding_rates_async(symbols, client)
        key(q) == 0 - AbsVal(q.fundingRate)
        sorted_rates == StableSort(all_rates,
                                   [j \in 1 .. Len(all_rates) |-> key(all_rates[j])])
    IN  IF \E j \in 1 .. Len(all_rates) : all_rates[j].rate # "number"
        THEN <<>>
        ELSE SubSeq(sorted_rates, 1, Min2(top_n, Len(all_rates)))

\* get_next_funding_time without its try/except: the exception leaves it
get_next_funding_time_bare(response) ==
    IF response.status = "ok" THEN [value |-> response.data, raised |-> "none"]
    ELSE IF response.status = "error" THEN [value |-> 0, raised |-> "none"]
    ELSE [value |-> 0, raised |-> "RequestException"]

\* get_next_funding_time: nextSettleTime of the answer, 0 for an error
\* envelope (line 263) and for an exception (lines 276-278)
get_next_funding_time(response) ==
    IF response.status = "ok" THEN [value |-> response.data, raised |-> "none"]
    ELSE [value |-> 0, raised |-> "none"]

\* ---------------------------------------------------------------------------
\* Symbol ranker (fetch_top_symbols)
\* ---------------------------------------------------------------------------

\* InFundingWindow with the lower bound included
InFundingWindow_closed(time_until_funding, min_funding_minutes, max_funding_minutes) ==
    /\ Minutes(min_funding_minutes) <= time_until_funding
    /\ time_until_funding <= Minutes(max_funding_minutes)

\* line 71: min_funding_minutes < time_until_funding_min <= max_funding_minutes
InFundingWindow(time_until_funding, min_funding_minutes, max_funding_minutes) ==
    /\ Minutes(min_funding_minutes) < time_until_funding
    /\ time_until_funding <= Minutes(max_funding_minutes)

\* A request of the ranker to the client: the method and its arguments
ClientCall(op, symbols, top_n) == [op |-> op, symbols |-> symbols, top_n |-> top_n]

NoScan == [symbols |-> <<>>, scanned |-> 0, raised |-> "none", lookups |-> <<>>]

\* ScanTopRates without the break of lines 75-76
RECURSIVE ScanTopRates_nobreak(_, _, _, _, _, _, _)
ScanTopRates_nobreak(top_rates, acc, rnow, lookup, top_n, min_funding_minutes, max_funding_minutes) ==
    IF top_rates = <<>> THEN acc
    ELSE LET entry == Head(top_rates)
             looked == IF entry.nextSettleTime = 0
                       THEN get_next_funding_time(lookup[entry.symbol])
                       ELSE [value |-> entry.nextSettleTime, raised |-> "none"]
             next_settle_time == looked.value
             keep == /\ next_settle_time > 0
                     /\ InFundingWindow(next_settle_time - rnow,
                                        min_funding_minutes, max_funding_minutes)
             asked == IF entry.nextSettleTime = 0
                      THEN <<ClientCall("get_next_funding_time", <<entry.symbol>>, 0)>>
                      ELSE <<>>
             acc2 == [acc EXCEPT !.scanned = @ + 1,
                                 !.lookups = @ \o asked,
                                 !.symbols = IF keep THEN Append(@, PyStr(entry.symbol)) ELSE @]
         IN  IF looked.raised # "none"
             THEN [acc EXCEPT !.scanned = @ + 1, !.lookups = @ \o asked,
                              !.raised = looked.raised]
             ELSE ScanTopRates_nobreak(Tail(top_rates), acc2, rnow, lookup, top_n,
                                       min_funding_minutes, max_funding_minutes)

\* ScanTopRates that asks get_next_funding_time for every entry, the
\* nextSettleTime of the quote ignored
RECURSIVE ScanTopRates_lookupall(_, _, _, _, _, _, _)
ScanTopRates_lookupall(top_rates, acc, rnow, lookup, top_n, min_funding_minutes, max_funding_minutes) ==
    IF top_rates = <<>> THEN acc
    ELSE LET entry == Head(top_rates)
             looked == get_next_funding_time(lookup[entry.symbol])
             next_settle_time == looked.value
             keep == /\ next_settle_time > 0
                     /\ InFundingWindow(next_settle_time - rnow,
                                        min_funding_minutes, max_funding_minutes)
             asked == <<ClientCall("get_next_funding_time", <<entry.symbol>>, 0)>>
             acc2 == [acc EXCEPT !.scanned = @ + 1,
                                 !.lookups = @ \o asked,
                                 !.symbols = IF keep THEN Append(@, PyStr(entry.symbol)) ELSE @]
         IN  IF keep /\ Len(acc2.symbols) >= top_n THEN acc2
             ELSE ScanTopRates_lookupall(Tail(top_rates), acc2, rnow, lookup, top_n,
                                         min_funding_minutes, max_funding_minutes)

\* The scan of fetch_top_symbols over top_rates (lines 53-76): acc.symbols is
\* symbols_with_imminent_funding, acc.scanned the number of entries the loop
\* has taken, lookup the answers of the funding_rate endpoint to
\* get_next_funding_time
RECURSIVE ScanTopRates(_, _, _, _, _, _, _)
ScanTopRates(top_rates, acc, rnow, lookup, top_n, min_funding_minutes, max_funding_minutes) ==
    IF top_rates = <<>> THEN acc
    ELSE LET entry == Head(top_rates)
             looked == IF entry.nextSettleTime = 0
                       THEN get_next_funding_time(lookup[entry.symbol])
                       ELSE [value |-> entry.nextSettleTime, raised |-> "none"]
             next_settle_time == looked.value
             keep == /\ next_settle_time > 0
                     /\ InFundingWindow(next_settle_time - rnow,
                                        min_funding_minutes, max_funding_minutes)
             asked == IF entry.nextSettleTime = 0
                      THEN <<ClientCall("get_next_funding_time", <<entry.symbol>>, 0)>>
                      ELSE <<>>
             acc2 == [acc EXCEPT !.scanned = @ + 1,
                                 !.lookups = @ \o asked,
                                 !.symbols = IF keep THEN Append(@, PyStr(entry.symbol)) ELSE @]
         IN  IF looked.raised # "none"
             THEN [acc EXCEPT !.scanned = @ + 1, !.lookups = @ \o asked,
                              !.raised = looked.raised]
             ELSE IF keep /\ Len(acc2.symbols) >= top_n THEN acc2
             ELSE ScanTopRates(Tail(top_rates), acc2, rnow, lookup, top_n,
                               min_funding_minutes, max_funding_minutes)

\* RankerRun that asks for three times top_n quotes, as the comment at
\* line 49 has it
RankerRun_x3(rnow, client, top_n, min_funding_minutes, max_funding_minutes) ==
    LET symbols == get_available_perpetual_symbols(client.listing)
        fetch_count == Min2(top_n * 3, Len(symbols))
        top_rates == get_top_funding_rates(symbols, client, fetch_count)
        scan == ScanTopRates(top_rates, NoScan, rnow, client.lookup, top_n,
                             min_funding_minutes, max_funding_minutes)
    IN  [now |-> rnow, client |-> client, top_n |-> top_n,
         min_funding_minutes |-> min_funding_minutes,
         max_funding_minutes |-> max_funding_minutes,
         symbols |-> symbols,
         top_rates |-> top_rates,
         calls |-> <<ClientCall("get_available_perpetual_symbols", <<>>, 0),
                     ClientCall("get_top_funding_rates", symbols, fetch_count)>>
                   \o scan.lookups,
         scanned |-> scan.scanned,
         caught |-> scan.raised,
         result |-> IF scan.raised # "none" THEN <<>> ELSE scan.symbols,
         raised |-> "none"]

\* One call fetch_top_symbols(client, top_n, min_funding_minutes,
\* max_funding_minutes) with everything it did: rnow is its own
\* datetime.now(); an exception of the body is caught at lines 80-82 and the
\* result is []
RankerRun(rnow, client, top_n, min_funding_minutes, max_funding_minutes) ==
    LET symbols == get_available_perpetual_symbols(client.listing)
        fetch_count == Min2(top_n * 5, Len(symbols))
        top_rates == get_top_funding_rates(symbols, client, fetch_count)
        scan == ScanTopRates(top_rates, NoScan, rnow, client.lookup, top_n,
                             min_funding_minutes, max_funding_minutes)
    IN  [now |-> rnow, client |-> client, top_n |-> top_n,
         min_funding_minutes |-> min_funding_minutes,
         max_funding_minutes |-> max_funding_minutes,
         symbols |-> symbols,
         top_rates |-> top_rates,
         calls |-> <<ClientCall("get_available_perpetual_symbols", <<>>, 0),
                     ClientCall("get_top_funding_rates", symbols, fetch_count)>>
                   \o scan.lookups,
         scanned |-> scan.scanned,
         caught |-> scan.raised,
         result |-> IF scan.raised # "none" THEN <<>> ELSE scan.symbols,
         raised |-> "none"]

fetch_top_symbols(rnow, client, top_n, min_funding_minutes, max_funding_minutes) ==
    RankerRun(rnow, client, top_n, min_funding_minutes, max_funding_minutes).result

\* ---------------------------------------------------------------------------
\* State
\* ---------------------------------------------------------------------------

VARIABLES
    now,        \* the wall clock
    cache,      \* cache/funding_rates: file name -> lines of the file
    tick,       \* what the invocation that just ran did (NoTick after the clock moved)
    keysRead,   \* the instants whose cache record some tick has loaded so far
    driver,     \* the scheduling loop of main.py
    collect,    \* what the last direct call of collect_and_save_data did
    rank,       \* the direct call of fetch_top_symbols in progress: <<>> or <<its run>>
    cacheDir,   \* the cache_dir the cache functions are called with directly
    cacheCall,  \* the direct call of a cache function in progress: <<>> or <<the call>>
    lastStored, \* per settlement instant, the last two lists cache_top_symbols wrote
    dataDir,    \* the data directory: file name -> rows of the file
    sinkCall,   \* the direct call of save_data_to_csv in progress: <<>> or <<the call>>
    cadence,    \* the ticks of a five-minute schedule of log_funding_snapshot so far
    gather      \* the bulk funding-rate fetch in progress: <<>> or <<its state>>

vars == <<now, cache, tick, keysRead, driver, collect, rank, cacheDir, cacheCall, lastStored,
          dataDir, sinkCall, cadence, gather>>

\* the variables of the Sink, of the five-minute schedule and of the bulk fetch
extras == <<dataDir, sinkCall, cadence, gather>>

\* the variables of the direct calls of the ranker and of the cache functions
probes == <<rank, cacheDir, cacheCall, lastStored>>

\* no cache key: smaller than every instant
NoKey == 0 - 1

NoTick ==
    [kind |-> "none", rankerCalls |-> 0, ranked |-> <<>>, cacheKey |-> NoKey,
     written |-> {}, loads |-> <<>>, fetches |-> <<>>, raised |-> "none",
     staleWrites |-> {}, fails |-> {}]

\* ---------------------------------------------------------------------------
\* Collection orchestrator (log_funding_snapshot)
\* ---------------------------------------------------------------------------

\* RankingActive with the lower comparison written <= (minute 30 skipped)
RankingActive_after30(current_minute) == ~(current_minute <= 30 \/ current_minute > 45)

\* line 115: the ranking phase is skipped when
\* current_minute < 30 or current_minute > 45
RankingActive(current_minute) == ~(current_minute < 30 \/ current_minute > 45)

\* InCollectionWindow with the upper limit 35 instead of 30
InCollectionWindow_wide(now_, funding_time) ==
    /\ Minutes(15) <= now_ - funding_time
    /\ now_ - funding_time <= Minutes(35)

\* line 137: 15 <= delta <= 30, delta the minutes from funding_time to now
InCollectionWindow(now_, funding_time) ==
    /\ Minutes(15) <= now_ - funding_time
    /\ now_ - funding_time <= Minutes(30)

\* The instants of funding_times the loop of line 134 acts on, in loop order
WindowTimesAt ==
    [t \in Times |->
        LET inWindow(ft) == InCollectionWindow(t, ft)
        IN  SelectSeq(FundingTimesAt[t], inWindow)] @@ <<>>

\* lines 129 and 141: ', '.join(seq) raises TypeError unless every item is a str
JoinRaises(seq) == \E i \in 1 .. Len(seq) : ~IsStr(seq[i])

\* lines 142-143: one collect_and_save_data call per element, in order, the
\* element itself passed as symbol and no funding rate; the call raises for
\* the symbols in fails, and nothing catches it inside the loop
FetcherLoop(cached_symbols, funding_time, fails) ==
    LET n == Len(cached_symbols)
        stop == IF \E i \in 1 .. n : cached_symbols[i].symbol \in fails
                THEN CHOOSE i \in 1 .. n :
                        /\ cached_symbols[i].symbol \in fails
                        /\ \A j \in 1 .. i - 1 : cached_symbols[j].symbol \notin fails
                ELSE n + 1
    IN  [fetches |-> [i \in 1 .. Min2(stop, n) |->
                        [symbol |-> cached_symbols[i],
                         funding_time |-> funding_time,
                         funding_rate |-> NoRate]],
         raised |-> IF stop <= n THEN "Exception" ELSE "none"]

\* lines 134-146: the post-settlement loop over the instants in the window;
\* acc carries the loads, the Fetcher calls and the exception so far
RECURSIVE PostPhase(_, _, _, _)
PostPhase(wins, dir, fails, acc) ==
    IF wins = <<>> THEN acc
    ELSE LET funding_time == Head(wins)
             cached_symbols == load_cached_symbols(dir, funding_time)
             loaded == [acc EXCEPT !.loads = Append(acc.loads, funding_time)]
         IN  IF cached_symbols = <<>>
             THEN PostPhase(Tail(wins), dir, fails, loaded)
             ELSE IF JoinRaises(cached_symbols)
             THEN [loaded EXCEPT !.raised = "TypeError"]
             ELSE LET fl == FetcherLoop(cached_symbols, funding_time, fails)
                      fetched == [loaded EXCEPT !.fetches = acc.fetches \o fl.fetches]
                  IN  IF fl.raised # "none"
                      THEN [fetched EXCEPT !.raised = fl.raised]
                      ELSE PostPhase(Tail(wins), dir, fails, fetched)

\* log_funding_snapshot that stores whatever the Ranker returned, an empty
\* list included
log_funding_snapshot_storesempty(now_, dir, ranked, fails, read) ==
    LET target == NextFundingAt[now_]
        active == RankingActive(MinuteOf(now_))
        symbols_in_window == IF active THEN ranked ELSE <<>>
        stores == active
        stored == IF stores
                  THEN cache_top_symbols(dir, symbols_in_window, target)
                  ELSE [dir |-> dir, raised |-> "none"]
        rankRaised == IF stored.raised # "none" THEN stored.raised
                      ELSE IF stores /\ JoinRaises(symbols_in_window) THEN "TypeError"
                      ELSE "none"
        ranking == [kind |-> "snapshot",
                    rankerCalls |-> IF active THEN 1 ELSE 0,
                    ranked |-> symbols_in_window,
                    cacheKey |-> IF stores THEN target ELSE NoKey,
                    written |-> IF stores THEN {target} ELSE {},
                    loads |-> <<>>, fetches |-> <<>>,
                    raised |-> rankRaised,
                    staleWrites |-> IF stores THEN {target} \cap read ELSE {},
                    fails |-> fails]
    IN  [dir |-> stored.dir,
         tick |-> IF rankRaised # "none" THEN ranking
                  ELSE PostPhase(WindowTimesAt[now_], stored.dir, fails, ranking)]

\* log_funding_snapshot(client, config) at clock value now_ on cache
\* directory dir.  ranked is what fetch_top_symbols returns if it is called,
\* fails the symbols collect_and_save_data raises for, read the instants
\* earlier ticks have loaded.  Any exception leaves through lines 147-149.
log_funding_snapshot(now_, dir, ranked, fails, read) ==
    LET target == NextFundingAt[now_]
        active == RankingActive(MinuteOf(now_))
        symbols_in_window == IF active THEN ranked ELSE <<>>
        stores == active /\ symbols_in_window # <<>>
        stored == IF stores
                  THEN cache_top_symbols(dir, symbols_in_window, target)
                  ELSE [dir |-> dir, raised |-> "none"]
        \* line 129 joins the ranked symbols after the store returned
        rankRaised == IF stored.raised # "none" THEN stored.raised
                      ELSE IF stores /\ JoinRaises(symbols_in_window) THEN "TypeError"
                      ELSE "none"
        ranking == [kind |-> "snapshot",
                    rankerCalls |-> IF active THEN 1 ELSE 0,
                    ranked |-> symbols_in_window,
                    cacheKey |-> IF stores THEN target ELSE NoKey,
                    written |-> IF stores THEN {target} ELSE {},
                    loads |-> <<>>, fetches |-> <<>>,
                    raised |-> rankRaised,
                    staleWrites |-> IF stores THEN {target} \cap read ELSE {},
                    fails |-> fails]
    IN  [dir |-> stored.dir,
         tick |-> IF rankRaised # "none" THEN ranking
                  ELSE PostPhase(WindowTimesAt[now_], stored.dir, fails, ranking)]

\* ---------------------------------------------------------------------------
\* Multi-timeframe fetcher (collect_and_save_data)
\* ---------------------------------------------------------------------------

SecondsPerHour == 3600

SecondsPerMinute == 60

\* int(funding_time.timestamp()), counted from 00:00 of day 0
EpochOf(t) == (t * SecondsPerMinute) \div SubPerMin

\* time_windows of the configuration: the defaults of lines 180-184 and the
\* values the tests configure
DefaultWindows ==
    [daily_days_back |-> 3, hourly_hours_back |-> 4, five_min_hours_before |-> 1,
     one_min_minutes_before |-> 10, one_min_minutes_after |-> 10]

TestWindows == [DefaultWindows EXCEPT !.hourly_hours_back = 8]

Windows == {DefaultWindows, TestWindows}

\* OhlcvRequests with the Min5 range computed from hourly_hours_back
OhlcvRequests_hourly5m(funding_ts, w) ==
    << [interval |-> "Day1", label |-> "daily",
        start |-> funding_ts - w.daily_days_back * HoursPerDay * SecondsPerHour,
        end |-> funding_ts],
       [interval |-> "Min60", label |-> "1h",
        start |-> funding_ts - w.hourly_hours_back * SecondsPerHour,
        end |-> funding_ts],
       [interval |-> "Min5", label |-> "5m",
        start |-> funding_ts - w.hourly_hours_back * SecondsPerHour,
        end |-> funding_ts],
       [interval |-> "Min1", label |-> "1m",
        start |-> funding_ts - w.one_min_minutes_before * SecondsPerMinute,
        end |-> funding_ts + w.one_min_minutes_after * SecondsPerMinute] >>

\* The four requests of lines 188-225, in the order they are issued
OhlcvRequests(funding_ts, w) ==
    << [interval |-> "Day1", label |-> "daily",
        start |-> funding_ts - w.daily_days_back * HoursPerDay * SecondsPerHour,
        end |-> funding_ts],
       [interval |-> "Min60", label |-> "1h",
        start |-> funding_ts - w.hourly_hours_back * SecondsPerHour,
        end |-> funding_ts],
       [interval |-> "Min5", label |-> "5m",
        start |-> funding_ts - w.five_min_hours_before * SecondsPerHour,
        end |-> funding_ts],
       [interval |-> "Min1", label |-> "1m",
        start |-> funding_ts - w.one_min_minutes_before * SecondsPerMinute,
        end |-> funding_ts + w.one_min_minutes_after * SecondsPerMinute] >>

\* What get_futures_ohlcv does with one request: it returns bars in row or
\* columnar shape, returns [] (success=false envelope, line 136), or raises
\* (transport error, re-raised at line 148)
OhlcvOutcomes == {"rows", "columns", "empty", "raise"}

\* collect_and_save_data: answers[i] is the outcome of the i-th request,
\* sinkOk whether save_data_to_csv can write its file.  The first raise
\* leaves through lines 235-237.
collect_and_save_data(symbol, funding_ts, w, answers, sinkOk) ==
    LET reqs == OhlcvRequests(funding_ts, w)
        stop == IF \E i \in 1 .. 4 : answers[i] = "raise"
                THEN CHOOSE i \in 1 .. 4 :
                        /\ answers[i] = "raise"
                        /\ \A j \in 1 .. i - 1 : answers[j] # "raise"
                ELSE 5
    IN  [symbol |-> symbol,
         funding_ts |-> funding_ts,
         windows |-> w,
         answers |-> answers,
         requests |-> SubSeq(reqs, 1, Min2(stop, 4)),
         sink |-> IF stop = 5
                  THEN << [symbol |-> symbol, funding_ts |-> funding_ts,
                           data |-> [i \in 1 .. 4 |->
                                       [label |-> reqs[i].label, candles |-> answers[i]]]] >>
                  ELSE <<>>,
         raised |-> IF stop <= 4 THEN "RuntimeError"
                    ELSE IF ~sinkOk THEN "OSError" ELSE "none"]

NoCollect ==
    [symbol |-> <<>>, funding_ts |-> 0, windows |-> DefaultWindows,
     answers |-> <<>>, requests |-> <<>>,
     sink |-> <<>>, raised |-> "none"]

\* ---------------------------------------------------------------------------
\* Inputs of a tick
\* ---------------------------------------------------------------------------

\* The top of the hour after t
NextHour(t) == (t \div HourLen + 1) * HourLen

\* The answer of contract/detail that lists symbols, all quoted in USDT
Listing(symbols) ==
    Response("ok", [i \in 1 .. Len(symbols) |->
                        [symbol |-> symbols[i], quoteCoin |-> "USDT"]])

\* The requests that fail with a transport error (the data is never read)
ListingDown == Response("raise", <<>>)

QuoteDown(s) == Response("raise", Quote(s, 0, 0))

LookupDown == Response("raise", 0)

\* What the exchange can answer during one ranking call of a tick: both
\* symbols quoted, the request for one quote failed, or the symbol list
\* could not be fetched
ExchangeAnswers(t) ==
    LET full == { Client(Listing(<<AAA_USDT, BBB_USDT>>),
                         [s \in Symbols |->
                            Response("ok", IF s = AAA_USDT THEN Quote(s, 10, a)
                                           ELSE Quote(s, r, b))],
                         "ok",
                         [s \in Symbols |-> l]) :
                  a \in {0, NextHour(t)}, b \in {NextHour(t), NextHour(t) + HourLen},
                  r \in {0 - 8, 12}, l \in {LookupDown, Response("ok", NextHour(t))} }
        partial == { Client(Listing(<<AAA_USDT, BBB_USDT>>),
                            [s \in Symbols |->
                               IF s = AAA_USDT
                               THEN Response("ok", Quote(s, 10, NextHour(t)))
                               ELSE QuoteDown(s)],
                            "ok",
                            [s \in Symbols |-> LookupDown]) }
        down == { Client(ListingDown, [s \in Symbols |-> QuoteDown(s)], "ok",
                         [s \in Symbols |-> LookupDown]) }
    IN  full \cup partial \cup down

\* Records a caller hands to cache_top_symbols directly
StoreInputs ==
    { <<PyDict(AAA_USDT, PyFloat(10)), PyDict(BBB_USDT, PyFloat(0 - 8))>> }

\* The settlement instants whose windows meet the model's clock interval: the
\* tops of the hours from the hour of StartTime to the hour of MaxTime
HorizonKeys == {h * HourLen : h \in StartTime \div HourLen .. MaxTime \div HourLen}

\* The symbols of the direct ranker calls
AllSymbols == {AAA_USDT, BBB_USDT, CCC_USDT}

\* The settlement the direct ranker calls look at: the top of the hour
\* after the start of the clock
RankerSettle == NextHour(StartTime)

\* The clock reads of the direct ranker calls: RankerSettle exactly 15
\* minutes away, a clock unit more than 15 minutes away, 30 minutes away
RankerClock ==
    {RankerSettle - Minutes(15), RankerSettle - Minutes(15) - 1, RankerSettle - Minutes(30)}

\* The symbol lists of the direct ranker calls: three symbols, one listed
\* twice, one quoted in another coin
RankerListings ==
    { Listing(<<AAA_USDT, BBB_USDT, CCC_USDT>>),
      Listing(<<AAA_USDT, AAA_USDT, BBB_USDT>>),
      Response("ok", << [symbol |-> CCC_USDT, quoteCoin |-> "USDC"],
                        [symbol |-> BBB_USDT, quoteCoin |-> "USDT"],
                        [symbol |-> AAA_USDT, quoteCoin |-> "USDT"] >>) }

\* The quotes of the direct ranker calls: nextSettleTime absent, at
\* RankerSettle, a quarter of an hour or an hour after it
RankerQuotes ==
    { [s \in AllSymbols |->
          IF s = AAA_USDT THEN Response("ok", Quote(s, 10, a))
          ELSE IF s = BBB_USDT THEN Response(st, Quote(s, r, b))
          ELSE Response("ok", Quote(s, 5, c))] :
      a \in {0, RankerSettle, RankerSettle + Minutes(15)},
      b \in {RankerSettle, RankerSettle + Minutes(15), RankerSettle + HourLen},
      c \in {0, RankerSettle},
      r \in {0 - 8, 10, 12},
      st \in {"ok", "raise"} }

\* The answers to get_next_funding_time of the direct ranker calls
RankerLookups ==
    [AllSymbols -> {Response("ok", RankerSettle), LookupDown}]
    \cup {[s \in AllSymbols |-> Response("error", 0)]}

\* The exchange of a direct ranker call: it answers, or the symbol list or
\* the bulk fetch cannot be had, or a quote is malformed, or the list has
\* six entries, more than five times a top_n of one
RankerClients ==
    LET answering == { Client(listing, quotes, "ok", lookup) :
                        listing \in RankerListings, quotes \in RankerQuotes,
                        lookup \in RankerLookups }
        quoted == [s \in AllSymbols |-> Response("ok", Quote(s, 10, RankerSettle))]
        silent == [s \in AllSymbols |-> QuoteDown(s)]
        looked == [s \in AllSymbols |-> Response("ok", RankerSettle)]
        unreachable ==
            { Client(listing, quoted, "ok", looked) :
                listing \in {ListingDown, Response("error", <<>>), Listing(<<>>)} }
            \cup { Client(Listing(<<AAA_USDT, BBB_USDT, CCC_USDT>>), quoted, "raise", looked),
                   Client(Listing(<<AAA_USDT, BBB_USDT, CCC_USDT>>), silent, "ok", looked) }
        garbled ==
            { Client(Listing(<<AAA_USDT, BBB_USDT, CCC_USDT>>),
                     [s \in AllSymbols |->
                        IF s = BBB_USDT THEN Response("ok", BadQuote(s, kind, RankerSettle))
                        ELSE Response("ok", Quote(s, 10, RankerSettle))],
                     "ok", looked) :
                kind \in {"missing", "text"} }
        crowded ==
            { Client(Listing(<<AAA_USDT, BBB_USDT, CCC_USDT, AAA_USDT, BBB_USDT, CCC_USDT>>),
                     quotes, "ok", looked) :
                quotes \in {quoted,
                            [s \in AllSymbols |-> Response("ok", Quote(s, 10, 0))]} }
    IN  answering \cup unreachable \cup garbled \cup crowded

\* The settlement instants the cache functions are called with directly
CacheKeys == {RankerSettle - HourLen, RankerSettle}

\* The lists of records cache_top_symbols is called with directly
CacheRecords ==
    StoreInputs
    \cup { <<PyDict(BBB_USDT, PyFloat(12))>>,
           <<PyDict(CCC_USDT, PyFloat(0)), PyDict(AAA_USDT, PyFloat(0 - 12345))>> }

\* max_age_hours of the direct calls of cleanup_old_caches: 24 is the default
MaxAges == {0, 1, 24}

\* the timestamp of t in ISO 8601 basic form: 20250102T220000+0000
BasicStamp(t) ==
    LET digit(c) == c \notin {"-", ":"}
    IN  SelectSeq(isoformat(t), digit)

\* Files in the directory that cache_top_symbols did not write: a timestamp
\* in basic form with and without offset, a name without timestamp, a name
\* the glob does not match
ForeignAware == <<"top3symbols", "_">> \o BasicStamp(RankerSettle - HourLen) \o <<".txt">>

ForeignNaive ==
    <<"top3symbols", "_">>
    \o SubSeq(BasicStamp(RankerSettle - HourLen), 1, Len(BasicStamp(RankerSettle - HourLen)) - 5)
    \o <<".txt">>

ForeignGarbage == <<"top3symbols", "_", "latest", ".txt">>

ForeignOther == <<"readme", ".txt">>

ForeignNames == {ForeignAware, ForeignNaive, ForeignGarbage, ForeignOther}

\* no cache directory yet
NoDirectory == [exists |-> FALSE, files |-> <<>>]

\* ---------------------------------------------------------------------------
\* Actions
\* ---------------------------------------------------------------------------

NoDriver ==
    [nextRun |-> StartTime + Minutes(5), wakeAt |-> StartTime, runs |-> 0,
     failures |-> 0, lastLevel |-> "INFO", alive |-> TRUE]

Init ==
    /\ now = StartTime
    /\ cache = <<>>
    /\ tick = NoTick
    /\ keysRead = {}
    /\ driver = NoDriver
    /\ collect = NoCollect
    /\ rank = <<>>
    /\ cacheDir = NoDirectory
    /\ cacheCall = <<>>
    /\ lastStored = [k \in CacheKeys |-> <<>>]
    /\ dataDir = <<>>
    /\ sinkCall = <<>>
    /\ cadence = <<>>
    /\ gather = <<>>

\* The wall clock moves on
Advance ==
    /\ now < MaxTime
    /\ now' = now + 1
    /\ tick' = NoTick
    /\ UNCHANGED <<cache, keysRead, driver, collect, probes, extras>>

\* One invocation log_funding_snapshot(client, config); the clock has moved
\* since the operation before it
LogFundingSnapshot ==
    /\ tick.kind = "none"
    /\ \E x \in IF RankingActive(MinuteOf(now)) THEN ExchangeAnswers(now) ELSE {<<>>},
          lag \in IF RankingActive(MinuteOf(now)) THEN 0 .. MaxLag ELSE {0},
          fails \in IF WindowTimesAt[now] # <<>> THEN SUBSET Symbols ELSE {{}} :
           LET ranked == IF RankingActive(MinuteOf(now))
                         THEN fetch_top_symbols(now + lag, x, ConfigTopN, 15, 30)
                         ELSE <<>>
           IN  \E r \in {log_funding_snapshot(now, cache, ranked, fails, keysRead)} :
                  /\ tick' = r.tick
                  /\ cache' = r.dir
                  /\ keysRead' = keysRead \cup {r.tick.loads[i] : i \in 1 .. Len(r.tick.loads)}
                  /\ UNCHANGED <<now, driver, collect, probes, extras>>

\* A direct call cache_top_symbols(symbols_data, funding_time, cache_dir)
\* with records, as the cache's own callers and tests make it
CacheTopSymbols ==
    /\ tick.kind = "none"
    /\ \E symbols_data \in StoreInputs, funding_time \in HorizonKeys :
          cache' = cache_top_symbols(cache, symbols_data, funding_time).dir
    /\ tick' = [NoTick EXCEPT !.kind = "store"]
    /\ UNCHANGED <<now, keysRead, driver, collect, probes, extras>>

Next == Advance \/ LogFundingSnapshot \/ CacheTopSymbols

Spec == Init /\ [][Next]_vars

\* ---------------------------------------------------------------------------
\* Driver (main.py)
\* ---------------------------------------------------------------------------

\* schedule.every(5).minutes
TickMinutes == 5

\* time.sleep(60) of the main loop, in minutes
SleepMinutes == 1

\* The call of a Python function whose required parameters are required, with
\* the arguments given: TypeError before the body runs when one is missing
CallLogFundingSnapshot(given, now_, dir, ranked, fails, read) ==
    IF {"client", "config"} \subseteq given
    THEN log_funding_snapshot(now_, dir, ranked, fails, read)
    ELSE [dir |-> dir,
          tick |-> [NoTick EXCEPT !.kind = "nocall", !.raised = "TypeError"]]

\* run_snapshot_safely without its try/except: the exception leaves the job
run_snapshot_safely_bare(now_, dir, ranked, fails, read) ==
    LET r == CallLogFundingSnapshot({"client"}, now_, dir, ranked, fails, read)
    IN  [dir |-> r.dir,
         tick |-> r.tick,
         level |-> "INFO",
         propagated |-> r.tick.raised # "none"]

\* run_snapshot_safely(client): line 69 calls log_funding_snapshot(client);
\* an exception is caught and logged with logger.error (lines 71-72),
\* otherwise logger.info (line 70)
run_snapshot_safely(now_, dir, ranked, fails, read) ==
    LET r == CallLogFundingSnapshot({"client"}, now_, dir, ranked, fails, read)
    IN  [dir |-> r.dir,
         tick |-> r.tick,
         level |-> IF r.tick.raised # "none" THEN "ERROR" ELSE "INFO",
         propagated |-> FALSE]

\* The clock moves on while the main loop sleeps
Sleep ==
    /\ driver.alive
    /\ now < MaxTime
    /\ now < driver.wakeAt + MaxOversleep
    /\ now' = now + 1
    /\ tick' = NoTick
    /\ UNCHANGED <<cache, keysRead, driver, collect, probes, extras>>

\* One round of the main loop (lines 52-54): schedule.run_pending() runs the
\* job when it is due and schedules it TickMinutes after the run, then
\* time.sleep(60).  An exception that leaves the job reaches the handler of
\* main (lines 55-57), which logs it critical and re-raises: the loop is over.
RunPending ==
    /\ driver.alive
    /\ now >= driver.wakeAt
    /\ IF now >= driver.nextRun
       THEN \E ranked \in {<<>>, <<PyStr(AAA_USDT)>>} :
              \E r \in {run_snapshot_safely(now, cache, ranked, {}, keysRead)} :
                  /\ tick' = r.tick
                  /\ cache' = r.dir
                  /\ keysRead' = keysRead \cup {r.tick.loads[i] : i \in 1 .. Len(r.tick.loads)}
                  /\ driver' = [nextRun |-> now + Minutes(TickMinutes),
                                wakeAt |-> now + Minutes(SleepMinutes),
                                runs |-> driver.runs + 1,
                                failures |-> driver.failures
                                             + IF r.tick.raised # "none" THEN 1 ELSE 0,
                                lastLevel |-> IF r.propagated THEN "CRITICAL" ELSE r.level,
                                alive |-> ~r.propagated]
       ELSE /\ driver' = [driver EXCEPT !.wakeAt = now + Minutes(SleepMinutes)]
            /\ UNCHANGED <<tick, cache, keysRead>>
    /\ UNCHANGED <<now, collect, probes, extras>>

NextDriver == Sleep \/ RunPending

SpecDriver == Init /\ [][NextDriver]_vars

\* ---------------------------------------------------------------------------
\* Direct calls of the fetcher
\* ---------------------------------------------------------------------------

\* The epoch of the spec's scenario and the settlement instants of the model
CollectInstants == {1700000000} \cup {EpochOf(k) : k \in HorizonKeys}

\* A caller invokes collect_and_save_data(client, symbol, funding_time, config)
CollectAndSaveData ==
    /\ collect = NoCollect
    /\ \E symbol \in Symbols, funding_ts \in CollectInstants, w \in Windows,
          answers \in [1 .. 4 -> OhlcvOutcomes], sinkOk \in BOOLEAN :
            collect' = collect_and_save_data(symbol, funding_ts, w, answers, sinkOk)
    /\ UNCHANGED <<now, cache, tick, keysRead, driver, probes, extras>>

\* The call is over: the caller has its result or its exception
CollectReturn ==
    /\ collect # NoCollect
    /\ collect' = NoCollect
    /\ UNCHANGED <<now, cache, tick, keysRead, driver, probes, extras>>

NextCollect == CollectAndSaveData \/ CollectReturn

SpecCollect == Init /\ [][NextCollect]_vars

\* ---------------------------------------------------------------------------
\* Direct calls of the ranker
\* ---------------------------------------------------------------------------

\* A caller invokes fetch_top_symbols(client, top_n) with the default window
\* of 15 to 30 minutes
FetchTopSymbols ==
    /\ rank = <<>>
    /\ \E rnow \in RankerClock, client \in RankerClients, top_n \in 0 .. ConfigTopN :
          rank' = <<RankerRun(rnow, client, top_n, 15, 30)>>
    /\ UNCHANGED <<now, cache, tick, keysRead, driver, collect, cacheDir, cacheCall, lastStored, extras>>

\* The call is over: the caller has its list
FetchReturn ==
    /\ rank # <<>>
    /\ rank' = <<>>
    /\ UNCHANGED <<now, cache, tick, keysRead, driver, collect, cacheDir, cacheCall, lastStored, extras>>

NextRanker == FetchTopSymbols \/ FetchReturn

SpecRanker == Init /\ [][NextRanker]_vars

\* ---------------------------------------------------------------------------
\* Direct calls of the cache functions
\* ---------------------------------------------------------------------------

\* One call of a cache function, with the directory it found
CacheCallOf(op, key, data, max_age, result, raised) ==
    [op |-> op, key |-> key, data |-> data, max_age |-> max_age, now |-> now,
     before |-> cacheDir, result |-> result, raised |-> raised]

\* cache_top_symbols(symbols_data, funding_time, cache_dir): line 34 creates
\* the directory
CacheStore ==
    /\ cacheCall = <<>>
    /\ \E symbols_data \in CacheRecords, funding_time \in CacheKeys :
          \E r \in {cache_top_symbols(cacheDir.files, symbols_data, funding_time)} :
              /\ cacheDir' = [exists |-> TRUE, files |-> r.dir]
              /\ cacheCall' = <<CacheCallOf("store", funding_time, symbols_data, 0,
                                            <<>>, r.raised)>>
              /\ lastStored' = [lastStored EXCEPT ![funding_time] =
                              IF @ = <<>> THEN <<symbols_data>>
                              ELSE <<@[Len(@)], symbols_data>>]
    /\ UNCHANGED <<now, cache, tick, keysRead, driver, collect, rank, extras>>

\* load_cached_symbols(funding_time, cache_dir)
CacheLoad ==
    /\ cacheCall = <<>>
    /\ \E funding_time \in CacheKeys :
          \E r \in {LoadCachedSymbols(cacheDir.files, funding_time)} :
              cacheCall' = <<CacheCallOf("load", funding_time, <<>>, 0, r.result, r.raised)>>
    /\ UNCHANGED <<now, cache, tick, keysRead, driver, collect, rank, cacheDir, lastStored, extras>>

\* cleanup_old_caches(cache_dir, max_age_hours)
CacheCleanup ==
    /\ cacheCall = <<>>
    /\ \E max_age_hours \in MaxAges :
          \E r \in {cleanup_old_caches(cacheDir.files, now, max_age_hours)} :
              /\ cacheDir' = [cacheDir EXCEPT !.files = r.dir]
              /\ cacheCall' = <<CacheCallOf("cleanup", NoKey, <<>>, max_age_hours,
                                            <<>>, r.raised)>>
              /\ lastStored' = [k \in CacheKeys |->
                              IF CacheFileNameAt[k] \in DOMAIN r.dir THEN lastStored[k] ELSE <<>>]
    /\ UNCHANGED <<now, cache, tick, keysRead, driver, collect, rank, extras>>

\* Something else puts a file into the directory
ForeignFile ==
    /\ cacheCall = <<>>
    /\ \E name \in ForeignNames \ DOMAIN cacheDir.files :
          cacheDir' = [exists |-> TRUE,
                       files |-> [f \in DOMAIN cacheDir.files \cup {name} |->
                                    IF f = name THEN <<AAA_USDT>> ELSE cacheDir.files[f]]]
    /\ UNCHANGED <<now, cache, tick, keysRead, driver, collect, rank, cacheCall, lastStored, extras>>

\* The call is over
CacheReturn ==
    /\ cacheCall # <<>>
    /\ cacheCall' = <<>>
    /\ UNCHANGED <<now, cache, tick, keysRead, driver, collect, rank, cacheDir, lastStored, extras>>

\* An hour passes between two calls
CacheClock ==
    /\ cacheCall = <<>>
    /\ now + HourLen <= MaxTime
    /\ now' = now + HourLen
    /\ UNCHANGED <<cache, tick, keysRead, driver, collect, rank, cacheDir, cacheCall, lastStored, extras>>

NextCache ==
    CacheStore \/ CacheLoad \/ CacheCleanup \/ ForeignFile \/ CacheReturn \/ CacheClock

SpecCache == Init /\ [][NextCache]_vars

\* ---------------------------------------------------------------------------
\* Properties
\* ---------------------------------------------------------------------------

SeqRange(seq) == {seq[i] : i \in 1 .. Len(seq)}

\* The Fetcher calls of the last tick for settlement instant T, in call order
FetchesFor(T) ==
    LET forT(f) == f.funding_time = T
    IN  SelectSeq(tick.fetches, forT)

\* The scheduled instants the Funding-Clock returns at the current clock value
Scheduled == SeqRange(FundingTimesAt[now])

\* 15 <= minutes since T <= 30 at the current clock value
SettledInWindow(T) == Minutes(15) <= now - T /\ now - T <= Minutes(30)

\* C1: after any invocation of log_funding_snapshot, for every scheduled
\* instant T the cache of T was loaded exactly when 15 <= now - T <= 30
\* minutes, the Fetcher was then invoked exactly once per cached entry of T,
\* in order, and for an instant outside the window nothing was loaded or fetched.
C1_PostSettlementCollection ==
    tick.kind = "snapshot" =>
        \A T \in Scheduled :
            LET cached == load_cached_symbols(cache, T)
            IN  /\ SettledInWindow(T) <=> T \in SeqRange(tick.loads)
                /\ SettledInWindow(T) =>
                      /\ Len(FetchesFor(T)) = Len(cached)
                      /\ \A j \in 1 .. Len(cached) :
                            FetchesFor(T)[j].symbol.symbol = cached[j].symbol
                /\ ~SettledInWindow(T) => FetchesFor(T) = <<>>

\* C2: after any invocation, for every instant T whose cache was loaded and
\* every cached entry {symbol, fundingRate} of T there is a Fetcher call with
\* the entry's symbol as a string, the instant T and the entry's fundingRate.
C2_FetcherArguments ==
    tick.kind = "snapshot" =>
        \A T \in SeqRange(tick.loads) :
            LET cached == load_cached_symbols(cache, T)
            IN  \A j \in 1 .. Len(cached) :
                    \E k \in 1 .. Len(tick.fetches) :
                        /\ tick.fetches[k].symbol = PyStr(cached[j].symbol)
                        /\ tick.fetches[k].funding_time = T
                        /\ tick.fetches[k].funding_rate = cached[j].fundingRate

\* C3 as claimed: an invocation calls the Symbol Ranker if and only if the
\* minute-of-hour m satisfies 30 < m <= 45.
C3_RankerOnlyAfterMinute30 ==
    tick.kind = "snapshot" =>
        (tick.rankerCalls > 0 <=> (30 < MinuteOf(now) /\ MinuteOf(now) <= 45))

\* C3 as amended: an invocation calls the Symbol Ranker (once) if and only if
\* 30 <= m <= 45; at every other minute it makes no Ranker call and no cache
\* write and still loads the cache of every instant in the post-settlement window.
C3_RankingWindow ==
    tick.kind = "snapshot" =>
        LET m == MinuteOf(now)
        IN  /\ tick.rankerCalls = 1 <=> (30 <= m /\ m <= 45)
            /\ ~(30 <= m /\ m <= 45) =>
                  /\ tick.rankerCalls = 0
                  /\ tick.written = {}
                  /\ tick.cacheKey = NoKey
                  /\ \A T \in Scheduled : SettledInWindow(T) => T \in SeqRange(tick.loads)

\* C3 witness: an invocation at minute 30 that called the Ranker
C3_Witness ==
    tick.kind = "snapshot" /\ MinuteOf(now) = 30 /\ tick.rankerCalls = 1

\* C4: whenever the ranking phase stores a result, the cache key is the
\* earliest scheduled instant strictly later than now, the top of the next hour.
C4_KeyIsNextUpcoming ==
    (tick.kind = "snapshot" /\ tick.cacheKey # NoKey) =>
        /\ tick.cacheKey > now
        /\ tick.cacheKey \in Scheduled
        /\ \A T \in Scheduled : T > now => tick.cacheKey <= T

\* C5: whenever the Ranker returned a non-empty result, the invocation stored
\* it without raising and the stored record holds one entry per ranked
\* symbol, in ranked order.
C5_StoresRankedResult ==
    (tick.kind = "snapshot" /\ tick.ranked # <<>>) =>
        LET stored == load_cached_symbols(cache, tick.cacheKey)
        IN  /\ tick.raised = "none"
            /\ tick.cacheKey # NoKey
            /\ Len(stored) = Len(tick.ranked)
            /\ \A i \in 1 .. Len(stored) : stored[i].symbol = tick.ranked[i].symbol

\* C6: a failure while one cached symbol of a settlement instant is processed
\* is contained: once the collection phase of an invocation has begun, every
\* instant in the post-settlement window is loaded and the Fetcher is invoked
\* for every cached symbol of each of them.
C6_FailureContainment ==
    (tick.kind = "snapshot" /\ tick.loads # <<>>) =>
        \A T \in Scheduled :
            SettledInWindow(T) =>
                /\ T \in SeqRange(tick.loads)
                /\ Len(FetchesFor(T)) = Len(load_cached_symbols(cache, T))

\* C7: when the price-history request of one resolution raises,
\* collect_and_save_data still issues all four requests and still makes its
\* Sink call with the resolutions that were fetched.
C7_ResolutionTolerance ==
    (collect # NoCollect /\ \E i \in 1 .. 4 : collect.answers[i] = "raise") =>
        /\ Len(collect.requests) = 4
        /\ Len(collect.sink) = 1

C9_WriteBeforeRead ==
    tick.kind = "snapshot" =>
        /\ tick.staleWrites = {}
        /\ tick.written \cap SeqRange(tick.loads) = {}

SettleOf(run, entry) ==
    IF entry.nextSettleTime # 0 THEN entry.nextSettleTime
    ELSE IF run.client.lookup[entry.symbol].status = "ok"
    THEN run.client.lookup[entry.symbol].data
    ELSE 0

\* minMinutes < minutes until the candidate's next settlement <= maxMinutes
Qualifies(run, entry) ==
    /\ SettleOf(run, entry) > 0
    /\ run.min_funding_minutes * SubPerMin < SettleOf(run, entry) - run.now
    /\ SettleOf(run, entry) - run.now <= run.max_funding_minutes * SubPerMin

\* The candidates of a run that qualify, in scan order
Qualifiers(run) ==
    LET q(entry) == Qualifies(run, entry)
    IN  SelectSeq(run.top_rates, q)

\* The per-symbol lookup was made for the candidate and failed
LookupFailed(run, entry) ==
    entry.nextSettleTime = 0 /\ run.client.lookup[entry.symbol].status # "ok"

\* C11: the result of every ranker call has at most topN entries, holds no
\* symbol twice and is ordered by non-increasing absolute funding rate of
\* the symbols' quotes.
C11_RankerResultInvariants ==
    rank # <<>> =>
        LET run == rank[1]
            rate(i) == AbsVal(run.client.quotes[run.result[i].symbol].data.fundingRate)
        IN  /\ Len(run.result) <= run.top_n
            /\ \A i, j \in 1 .. Len(run.result) :
                  i < j => /\ run.result[i].symbol # run.result[j].symbol
                           /\ rate(i) >= rate(j)

\* C12: every returned symbol is a candidate whose next settlement is more
\* than minMinutes and at most maxMinutes away (exactly minMinutes away is
\* out, exactly maxMinutes away is in), and as long as fewer than topN
\* symbols are returned every such candidate is returned.
C12_HalfOpenWindow ==
    rank # <<>> =>
        LET run == rank[1]
        IN  /\ \A i \in 1 .. Len(run.result) :
                  \E j \in 1 .. Len(run.top_rates) :
                      /\ run.top_rates[j].symbol = run.result[i].symbol
                      /\ Qualifies(run, run.top_rates[j])
            /\ Len(run.result) < run.top_n =>
                  \A j \in 1 .. Len(run.top_rates) :
                      (Minutes(run.min_funding_minutes)
                            < SettleOf(run, run.top_rates[j]) - run.now
                       /\ SettleOf(run, run.top_rates[j]) - run.now
                            <= Minutes(run.max_funding_minutes))
                      => PyStr(run.top_rates[j].symbol) \in SeqRange(run.result)

\* C12 witness: a call that returned a candidate exactly maxMinutes away and
\* left out a candidate exactly minMinutes away
C12_Witness ==
    /\ rank # <<>>
    /\ \E i, j \in 1 .. Len(rank[1].top_rates) :
          /\ SettleOf(rank[1], rank[1].top_rates[i]) - rank[1].now = Minutes(30)
          /\ PyStr(rank[1].top_rates[i].symbol) \in SeqRange(rank[1].result)
          /\ SettleOf(rank[1], rank[1].top_rates[j]) - rank[1].now = Minutes(15)
          /\ PyStr(rank[1].top_rates[j].symbol) \notin SeqRange(rank[1].result)

\* C13: the result is exactly the first min(topN, number of qualifiers)
\* qualifying candidates in the collaborator's order, and the scan stops at
\* the candidate that completes topN qualifiers.
C13_FirstTopNQualifiers ==
    rank # <<>> =>
        LET run == rank[1]
            qual == Qualifiers(run)
            n == Min2(run.top_n, Len(qual))
        IN  /\ run.result = [i \in 1 .. n |-> PyStr(qual[i].symbol)]
            /\ IF run.top_n > 0 /\ Len(qual) >= run.top_n
               THEN /\ run.scanned >= 1
                    /\ run.top_rates[run.scanned] = qual[run.top_n]
                    /\ Len(Qualifiers([run EXCEPT !.top_rates = SubSeq(@, 1, run.scanned)]))
                         = run.top_n
               ELSE run.scanned = Len(run.top_rates)

\* C13 witness: a call that stopped before the end of the candidates with
\* topN symbols, a qualifying candidate left unscanned
C13_Witness ==
    /\ rank # <<>>
    /\ rank[1].top_n > 0
    /\ Len(rank[1].result) = rank[1].top_n
    /\ rank[1].scanned < Len(rank[1].top_rates)
    /\ Len(Qualifiers(rank[1])) > rank[1].top_n

\* The exchange could not be reached for the symbol list or for the bulk
\* funding-rate call: the call raised or yielded nothing
Unreachable(run) ==
    \/ run.client.listing.status # "ok"
    \/ run.client.listing.data = <<>>
    \/ run.client.bulk = "raise"
    \/ \A s \in AllSymbols : run.client.quotes[s].status # "ok"

\* C14: when the exchange cannot be reached for the symbol list or for the
\* bulk funding-rate call, the ranker returns an empty result and raises
\* nothing.
C14_UnreachableYieldsEmpty ==
    (rank # <<>> /\ Unreachable(rank[1])) =>
        /\ rank[1].result = <<>>
        /\ rank[1].raised = "none"

\* C14 witness: a call whose symbol-list request failed while the quotes
\* could have been had
C14_Witness ==
    /\ rank # <<>>
    /\ rank[1].top_n > 0
    /\ rank[1].client.listing.status = "raise"
    /\ \A s \in AllSymbols : rank[1].client.quotes[s].status = "ok"

SameRecords(loaded, symbols_data) ==
    /\ Len(loaded) = Len(symbols_data)
    /\ \A i \in 1 .. Len(symbols_data) :
          /\ loaded[i].symbol = symbols_data[i].symbol
          /\ loaded[i].fundingRate = symbols_data[i].fundingRate

\* The list cache_top_symbols wrote last for instant k, and the one before
LastStored(k) == lastStored[k][Len(lastStored[k])]

\* C16: round trip: load_cached_symbols(k) after cache_top_symbols(R, k) of
\* a non-empty list R of (symbol, fundingRate) records returns the same
\* symbols with the same funding rates in the same order.
C16_RoundTrip ==
    (/\ cacheCall # <<>>
     /\ cacheCall[1].op = "load"
     /\ lastStored[cacheCall[1].key] # <<>>) =>
        /\ cacheCall[1].raised = "none"
        /\ SameRecords(cacheCall[1].result, LastStored(cacheCall[1].key))

\* C16 witness: a load that returned two records, one of them with a
\* negative rate with four decimals
C16_Witness ==
    /\ cacheCall # <<>>
    /\ cacheCall[1].op = "load"
    /\ Len(cacheCall[1].result) = 2
    /\ cacheCall[1].result[2] = PyDict(AAA_USDT, PyFloat(0 - 12345))

\* C17: load_cached_symbols for an instant without cache file returns an
\* empty result and raises nothing, whatever the directory holds and also
\* when the directory does not exist.
C17_LoadMissing ==
    (/\ cacheCall # <<>>
     /\ cacheCall[1].op = "load"
     /\ CacheFileNameAt[cacheCall[1].key] \notin DOMAIN cacheCall[1].before.files) =>
        /\ cacheCall[1].result = <<>>
        /\ cacheCall[1].raised = "none"

\* C17 witness: a load while the cache directory does not exist
C17_Witness ==
    /\ cacheCall # <<>>
    /\ cacheCall[1].op = "load"
    /\ ~cacheCall[1].before.exists

\* C18: after cache_top_symbols(R1, k) and then cache_top_symbols(R2, k),
\* load_cached_symbols(k) returns exactly R2 and no entry of R1 survives;
\* the directory holds at most one record per settlement instant.
C18_StoreOverwrites ==
    /\ Cardinality({name \in DOMAIN cacheDir.files :
                        \E k \in CacheKeys : name = CacheFileNameAt[k]})
         <= Cardinality({k \in CacheKeys : lastStored[k] # <<>>})
    /\ (/\ cacheCall # <<>>
        /\ cacheCall[1].op = "load"
        /\ Len(lastStored[cacheCall[1].key]) = 2) =>
           /\ cacheCall[1].result = lastStored[cacheCall[1].key][2]
           /\ \A e \in SeqRange(cacheCall[1].result) :
                 e \in SeqRange(lastStored[cacheCall[1].key][2])

\* C18 witness: a load of an instant that was stored twice with two lists
\* that share no record
C18_Witness ==
    /\ cacheCall # <<>>
    /\ cacheCall[1].op = "load"
    /\ Len(lastStored[cacheCall[1].key]) = 2
    /\ SeqRange(lastStored[cacheCall[1].key][1])
         \cap SeqRange(lastStored[cacheCall[1].key][2]) = {}

\* C19: after cleanup_old_caches(cache_dir, maxAgeHours) ran at time now, no
\* file cache_top_symbols wrote for an instant earlier than
\* now - maxAgeHours is left in the directory.
C19_ExpiryRemovesOld ==
    (cacheCall # <<>> /\ cacheCall[1].op = "cleanup") =>
        \A k \in CacheKeys :
            k < cacheCall[1].now - cacheCall[1].max_age * HourLen
            => CacheFileNameAt[k] \notin DOMAIN cacheDir.files

\* The files cleanup_old_caches must leave alone: a name without a
\* well-formed timestamp, and a record whose instant is not older than
\* maxAgeHours
MustStay(name, cutoff) ==
    \/ name \in {ForeignGarbage, ForeignOther}
    \/ \E k \in CacheKeys : name = CacheFileNameAt[k] /\ k >= cutoff
    \/ name \in {ForeignAware, ForeignNaive} /\ RankerSettle - HourLen >= cutoff

\* C20: cleanup_old_caches raises nothing, and every file whose name holds
\* no well-formed timestamp or whose instant is not older than maxAgeHours
\* is in the directory afterwards, with its content.
C20_CleanupFrame ==
    (cacheCall # <<>> /\ cacheCall[1].op = "cleanup") =>
        /\ cacheCall[1].raised = "none"
        /\ \A name \in DOMAIN cacheCall[1].before.files :
              MustStay(name, cacheCall[1].now - cacheCall[1].max_age * HourLen) =>
                  /\ name \in DOMAIN cacheDir.files
                  /\ cacheDir.files[name] = cacheCall[1].before.files[name]

\* C20 witness: a cleanup that removed a file and left a file without
\* timestamp and a record in the directory
C20_Witness ==
    /\ cacheCall # <<>>
    /\ cacheCall[1].op = "cleanup"
    /\ DOMAIN cacheDir.files # DOMAIN cacheCall[1].before.files
    /\ ForeignGarbage \in DOMAIN cacheDir.files
    /\ \E k \in CacheKeys : CacheFileNameAt[k] \in DOMAIN cacheDir.files

C22_FourRequestsThenSink ==
    (collect # NoCollect /\ \A i \in 1 .. 4 : collect.answers[i] # "raise") =>
        LET T == collect.funding_ts
            w == collect.windows
            range(i) == <<collect.requests[i].interval, collect.requests[i].start,
                          collect.requests[i].end>>
        IN  /\ Len(collect.requests) = 4
            /\ range(1) = <<"Day1", T - w.daily_days_back * 86400, T>>
            /\ range(2) = <<"Min60", T - w.hourly_hours_back * 3600, T>>
            /\ range(3) = <<"Min5", T - w.five_min_hours_before * 3600, T>>
            /\ range(4) = <<"Min1", T - w.one_min_minutes_before * 60,
                            T + w.one_min_minutes_after * 60>>
            /\ Len(collect.sink) = 1
            /\ collect.sink[1].funding_ts = T
            /\ collect.sink[1].symbol = collect.symbol
            /\ [i \in 1 .. 4 |-> collect.sink[1].data[i].label] = <<"daily", "1h", "5m", "1m">>
            /\ [i \in 1 .. 4 |-> collect.sink[1].data[i].candles] = collect.answers

\* C22 witness: the call of the scenario (T = 1700000000, the default
\* offsets 3, 4, 1, 10, 10) with bars in both shapes and an empty answer
C22_Witness ==
    /\ collect # NoCollect
    /\ collect.funding_ts = 1700000000
    /\ collect.windows = DefaultWindows
    /\ collect.answers = <<"rows", "columns", "empty", "rows">>
    /\ Len(collect.sink) = 1
    /\ collect.requests[1].start = 1699740800
    /\ collect.requests[4].end = 1700000600

\* ---------------------------------------------------------------------------
\* The Sink (save_data_to_csv)
\* ---------------------------------------------------------------------------

MillisPerSecond == 1000

\* a bar time the exchange gives as a number, and one it gives as a str
IntMs(n) == [type |-> "int", value |-> n, text |-> <<>>]

StrMs(text) == [type |-> "str", value |-> 0, text |-> text]

\* candles in the row shape: a list of [time, open, high, low, close, vol]
ListCandles(rows) ==
    [shape |-> "list", rows |-> rows, time |-> <<>>, open |-> <<>>, high |-> <<>>,
     low |-> <<>>, close |-> <<>>, vol |-> <<>>]

\* candles in the columnar shape: a dict of arrays with the key 'time'
DictCandles(time, open, high, low, close, vol) ==
    [shape |-> "dict", rows |-> <<>>, time |-> time, open |-> open, high |-> high,
     low |-> low, close |-> close, vol |-> vol]

\* a value that is neither a list nor a dict with the key 'time'
OtherCandles == [ListCandles(<<>>) EXCEPT !.shape = "other"]

\* the seconds of a bar time rounded to the nearest second
BarSeconds_nearest(time) ==
    IF time.type = "str" THEN (NatOf(time.text) + 500) \div MillisPerSecond
    ELSE (time.value + 500) \div MillisPerSecond

\* int(t) // 1000 if isinstance(t, str) else t // 1000
BarSeconds(time) ==
    IF time.type = "str" THEN NatOf(time.text) \div MillisPerSecond
    ELSE time.value \div MillisPerSecond

\* int(t) of a str that is not a number raises ValueError
BarSecondsRaises(time) == time.type = "str" /\ ~AllDigits(time.text)

\* datetime.fromtimestamp(seconds, timezone.utc).isoformat(), in the model's
\* calendar
utc_isoformat(seconds) ==
    DateText(seconds \div (HoursPerDay * SecondsPerHour)) \o <<"T">>
    \o ZeroPad(NatText((seconds % (HoursPerDay * SecondsPerHour)) \div SecondsPerHour), 2)
    \o <<":">>
    \o ZeroPad(NatText((seconds % SecondsPerHour) \div SecondsPerMinute), 2) \o <<":">>
    \o ZeroPad(NatText(seconds % SecondsPerMinute), 2)
    \o <<"+", "0", "0", ":", "0", "0">>

\* the bars of a dict of arrays from index i on: an index some array of
\* prices lacks is passed over
RECURSIVE DictBarsFrom(_, _)
DictBarsFrom(c, i) ==
    IF i > Len(c.time) THEN <<>>
    ELSE (IF /\ i <= Len(c.open) /\ i <= Len(c.high) /\ i <= Len(c.low)
             /\ i <= Len(c.close) /\ i <= Len(c.vol)
          THEN << [time |-> c.time[i],
                   values |-> <<c.open[i], c.high[i], c.low[i], c.close[i], c.vol[i]>>] >>
          ELSE <<>>)
         \o DictBarsFrom(c, i + 1)

\* the bars of one resolution that get a row
IntervalBars(c) ==
    IF c.shape = "dict" THEN DictBarsFrom(c, 1)
    ELSE IF c.shape = "list"
    THEN [i \in 1 .. Len(c.rows) |-> [time |-> c.rows[i][1], values |-> Tail(c.rows[i])]]
    ELSE <<>>

\* the rows the loop over candle_data.items() is to write, in its order
RECURSIVE PendingRows(_)
PendingRows(candle_data) ==
    IF candle_data = <<>> THEN <<>>
    ELSE LET bars == IntervalBars(Head(candle_data).candles)
         IN  [i \in 1 .. Len(bars) |->
                 [interval |-> Head(candle_data).label, time |-> bars[i].time,
                  values |-> bars[i].values]]
             \o PendingRows(Tail(candle_data))

SinkHeader ==
    << <<"Symbol">>, <<"FundingTime">>, <<"Interval">>, <<"Timestamp">>, <<"Open">>,
       <<"High">>, <<"Low">>, <<"Close">>, <<"Volume">> >>

\* the cells of the row of one bar
CandleRow(symbol, funding_time, bar) ==
    <<symbol, isoformat(funding_time), bar.interval, utc_isoformat(BarSeconds(bar.time))>>
    \o [i \in 1 .. Len(bar.values) |-> FormatValue(bar.values[i])]

\* data/<symbol>_<%Y-%m-%d_%H:00>.csv
SinkFileName(symbol, funding_time) ==
    symbol \o <<"_">> \o DateText(DayOf(funding_time)) \o <<"_">>
    \o ZeroPad(NatText(HourOf(funding_time)), 2) \o <<":", "0", "0", ".csv">>

\* the directory with the file of the given name holding the given rows
WithFile(dir, name, rows) ==
    [f \in DOMAIN dir \cup {name} |-> IF f = name THEN rows ELSE dir[f]]

\* save_data_to_csv(symbol, funding_time, candle_data) on the data directory
\* dir. fault is what the file system does: "mkdir" and "open" fail before
\* the file is touched, "write" fails after open('w') has truncated it. A
\* row is the list of its cells; rows are written until one raises.
save_data_to_csv(dir, symbol, funding_time, candle_data, fault) ==
    LET name == SinkFileName(symbol, funding_time)
        pending == PendingRows(candle_data)
        bad == {i \in 1 .. Len(pending) : BarSecondsRaises(pending[i].time)}
        stop == IF bad = {} THEN Len(pending) + 1
                ELSE CHOOSE i \in bad : \A j \in bad : i <= j
    IN  IF fault \in {"mkdir", "open"} THEN [dir |-> dir, raised |-> "OSError"]
        ELSE IF fault = "write"
        THEN [dir |-> WithFile(dir, name, <<>>), raised |-> "OSError"]
        ELSE [dir |-> WithFile(dir, name,
                         <<SinkHeader>>
                         \o [i \in 1 .. stop - 1 |->
                                CandleRow(symbol, funding_time, pending[i])]),
              raised |-> IF bad = {} THEN "none" ELSE "ValueError"]

\* The settlement instant of the Sink's inputs, and its epoch milliseconds
SinkSettle == RankerSettle

SinkBaseMs == EpochOf(SinkSettle) * MillisPerSecond

\* open, high, low, close, vol of a bar
Prices(px) ==
    <<PyFloat(px), PyFloat(px + 5000), PyFloat(px - 5000), PyFloat(px + 1), PyFloat(70000)>>

\* [time, open, high, low, close, vol]
CandleList(time, px) == <<time>> \o Prices(px)

\* the arrays of the bars with the given times, prices rising by one unit
CandleDict(times) ==
    DictCandles(times,
                [i \in 1 .. Len(times) |-> PyFloat(20000 + i)],
                [i \in 1 .. Len(times) |-> PyFloat(25000 + i)],
                [i \in 1 .. Len(times) |-> PyFloat(15000 + i)],
                [i \in 1 .. Len(times) |-> PyFloat(21000 + i)],
                [i \in 1 .. Len(times) |-> PyFloat(70000)])

Item(label, candles) == [label |-> <<label>>, candles |-> candles]

\* two bars of one resolution and one bar of another, rows with numbers
ScenarioCandles ==
    << Item("1m", ListCandles(<< CandleList(IntMs(SinkBaseMs - 60000), 15000),
                                 CandleList(IntMs(SinkBaseMs + 1999), 15500) >>)),
       Item("5m", ListCandles(<< CandleList(IntMs(SinkBaseMs - 300000), 14000) >>)) >>

\* both shapes, numbers and strs of digits, and an error envelope's []
MixedCandles ==
    << Item("daily", CandleDict(<< IntMs(SinkBaseMs - 86400000), IntMs(SinkBaseMs + 999) >>)),
       Item("1h", CandleDict(<< StrMs(NatText(SinkBaseMs - 3600000 + 1)) >>)),
       Item("5m", ListCandles(<<>>)),
       Item("1m", ListCandles(<< CandleList(StrMs(NatText(SinkBaseMs + 59999)), 15000) >>)) >>

\* every request answered with an error envelope
EmptyCandles ==
    << Item("daily", ListCandles(<<>>)), Item("1h", ListCandles(<<>>)),
       Item("5m", ListCandles(<<>>)), Item("1m", ListCandles(<<>>)) >>

\* a dict whose vol array is one short, and one row
RaggedCandles ==
    << Item("1h", [CandleDict(<< IntMs(SinkBaseMs - 3600000), IntMs(SinkBaseMs) >>)
                      EXCEPT !.vol = << PyFloat(70000) >>]),
       Item("1m", ListCandles(<< CandleList(IntMs(SinkBaseMs), 16000) >>)) >>

\* a row whose time is a str that is not a number, after a row that is fine
GarbledCandles ==
    << Item("1m", ListCandles(<< CandleList(IntMs(SinkBaseMs - 60000), 15000),
                                 CandleList(StrMs(<<"n", "/", "a">>), 15500) >>)) >>

\* a value that is no list of bars, and one row
ForeignCandles ==
    << Item("5m", OtherCandles),
       Item("1m", ListCandles(<< CandleList(IntMs(SinkBaseMs - 60000), 17000) >>)) >>

CandleInputs ==
    {ScenarioCandles, MixedCandles, EmptyCandles, RaggedCandles, GarbledCandles,
     ForeignCandles}

\* the (symbol, settlement instant) pairs the Sink is called with
SinkPairs ==
    {<<AAA_USDT, SinkSettle>>, <<AAA_USDT, SinkSettle + HourLen>>, <<BBB_USDT, SinkSettle>>}

SinkFaults == {"none", "mkdir", "open", "write"}

\* A caller invokes save_data_to_csv(symbol, funding_time, candle_data)
SaveDataToCsv ==
    /\ sinkCall = <<>>
    /\ \E pair \in SinkPairs, candle_data \in CandleInputs, fault \in SinkFaults :
          \E r \in {save_data_to_csv(dataDir, pair[1], pair[2], candle_data, fault)} :
              /\ dataDir' = r.dir
              /\ sinkCall' = << [symbol |-> pair[1], funding_time |-> pair[2],
                                 candle_data |-> candle_data, fault |-> fault,
                                 before |-> dataDir, raised |-> r.raised] >>
    /\ UNCHANGED <<now, cache, tick, keysRead, driver, collect, probes, cadence, gather>>

\* The call is over: the caller has its exception or goes on
SinkReturn ==
    /\ sinkCall # <<>>
    /\ sinkCall' = <<>>
    /\ UNCHANGED <<now, cache, tick, keysRead, driver, collect, probes, dataDir,
                   cadence, gather>>

NextSink == SaveDataToCsv \/ SinkReturn

SpecSink == Init /\ [][NextSink]_vars

\* the bars of a resolution: the rows of a list, the indexes of a dict of
\* arrays of one length
BarCount(c) ==
    IF c.shape = "list" THEN Len(c.rows) ELSE IF c.shape = "dict" THEN Len(c.time) ELSE 0

\* bars in one of the two shapes, every array of a dict as long as its
\* 'time', every time a number or a str of digits
WellShaped(candle_data) ==
    \A k \in 1 .. Len(candle_data) :
        LET c == candle_data[k].candles
        IN  /\ c.shape \in {"list", "dict"}
            /\ c.shape = "dict" =>
                  \A col \in {c.open, c.high, c.low, c.close, c.vol} : Len(col) = Len(c.time)
            /\ \A i \in 1 .. Len(c.rows) : ~BarSecondsRaises(c.rows[i][1])
            /\ \A i \in 1 .. Len(c.time) : ~BarSecondsRaises(c.time[i])

\* the k-th bar over all resolutions, in the order returned: its label, its
\* epoch milliseconds and its five values
RECURSIVE BarAt(_, _)
BarAt(candle_data, k) ==
    LET c == Head(candle_data).candles
    IN  IF k > BarCount(c) THEN BarAt(Tail(candle_data), k - BarCount(c))
        ELSE [label |-> Head(candle_data).label,
              ms |-> LET t == IF c.shape = "list" THEN c.rows[k][1] ELSE c.time[k]
                     IN  IF t.type = "str" THEN NatOf(t.text) ELSE t.value,
              values |-> IF c.shape = "list" THEN Tail(c.rows[k])
                         ELSE <<c.open[k], c.high[k], c.low[k], c.close[k], c.vol[k]>>]

RECURSIVE TotalBars(_)
TotalBars(candle_data) ==
    IF candle_data = <<>> THEN 0
    ELSE BarCount(Head(candle_data).candles) + TotalBars(Tail(candle_data))

\* C23: a Sink call that the file system lets through, for bars in the row
\* shape or the columnar shape, leaves a file whose first row is the fixed
\* header and whose k-th data row is the k-th bar in the order returned: the
\* symbol, the settlement instant, the label, the ISO-8601 UTC text of
\* floor(ms / 1000) seconds for a time given as a number or as a str of
\* digits, then the bar's values; there are as many data rows as bars.
C23_SinkRows ==
    (/\ sinkCall # <<>>
     /\ sinkCall[1].fault = "none"
     /\ WellShaped(sinkCall[1].candle_data)) =>
        LET call == sinkCall[1]
            rows == dataDir[SinkFileName(call.symbol, call.funding_time)]
            n == TotalBars(call.candle_data)
        IN  /\ call.raised = "none"
            /\ Len(rows) = n + 1
            /\ rows[1] = << <<"Symbol">>, <<"FundingTime">>, <<"Interval">>,
                            <<"Timestamp">>, <<"Open">>, <<"High">>, <<"Low">>,
                            <<"Close">>, <<"Volume">> >>
            /\ \A k \in 1 .. n :
                  LET bar == BarAt(call.candle_data, k)
                      row == rows[k + 1]
                      secs == (bar.ms - (bar.ms % 1000)) \div 1000
                  IN  /\ row[1] = call.symbol
                      /\ row[2] = isoformat(call.funding_time)
                      /\ row[3] = bar.label
                      /\ row[4] = utc_isoformat(secs)
                      /\ SubSeq(row, 5, Len(row)) =
                            [i \in 1 .. 5 |-> FormatValue(bar.values[i])]

\* C23 witness: the call with both shapes, a time given as a number that is
\* no whole second and a time given as a str has written its five rows
C23_Witness ==
    /\ sinkCall # <<>>
    /\ sinkCall[1].fault = "none"
    /\ sinkCall[1].candle_data = MixedCandles
    /\ sinkCall[1].funding_time = SinkSettle
    /\ LET rows == dataDir[SinkFileName(sinkCall[1].symbol, SinkSettle)]
       IN  /\ Len(rows) = 5
           /\ rows[3][4] = <<"2", "0", "2", "5", "-", "0", "1", "-", "0", "2", "T",
                             "2", "3", ":", "0", "0", ":", "0", "0",
                             "+", "0", "0", ":", "0", "0">>
           /\ rows[4][4] = <<"2", "0", "2", "5", "-", "0", "1", "-", "0", "2", "T",
                             "2", "2", ":", "0", "0", ":", "0", "0",
                             "+", "0", "0", ":", "0", "0">>
           /\ rows[5][4] = <<"2", "0", "2", "5", "-", "0", "1", "-", "0", "2", "T",
                             "2", "3", ":", "0", "0", ":", "5", "9",
                             "+", "0", "0", ":", "0", "0">>

\* C25: the Sink's output is append-only: every data row the file of a
\* (symbol, settlement instant) pair held before a Sink write for that pair
\* is still there, unaltered and in its place, after the write.
C25_AppendOnly ==
    sinkCall # <<>> =>
        LET name == SinkFileName(sinkCall[1].symbol, sinkCall[1].funding_time)
            before == sinkCall[1].before
        IN  name \in DOMAIN before =>
                \A i \in 2 .. Len(before[name]) :
                    /\ i <= Len(dataDir[name])
                    /\ dataDir[name][i] = before[name][i]

CadenceKeys == {h * HourLen : h \in StartTime \div HourLen - 1 .. MaxTime \div HourLen + 1}

\* The top of the hour t lies in
HourStart(t) == (t \div HourLen) * HourLen

\* What the schedule has done so far, counted in ticks: per clock hour the
\* ticks that invoked the Ranker, per settlement instant the ticks that
\* invoked it while a symbol settling then qualifies, the ticks that wrote
\* its cache record, that loaded it, that loaded it with entries, and that
\* ran the Fetcher for it
NoCadence ==
    [next |-> StartTime, ticks |-> 0,
     rankers |-> [k \in CadenceKeys |-> 0],
     qualified |-> [k \in CadenceKeys |-> 0],
     writes |-> [k \in CadenceKeys |-> 0],
     loads |-> [k \in CadenceKeys |-> 0],
     found |-> [k \in CadenceKeys |-> 0],
     fetched |-> [k \in CadenceKeys |-> 0]]

Bump(count, keys) == [k \in DOMAIN count |-> IF k \in keys THEN count[k] + 1 ELSE count[k]]

\* What the exchange answers during a tick of the schedule: AAA_USDT quoted
\* with its settlement at the next top of the hour, or the symbol list down
CadenceAnswers(t) ==
    { Client(Listing(<<AAA_USDT, BBB_USDT>>),
             [s \in Symbols |->
                IF s = AAA_USDT THEN Response("ok", Quote(s, 10, NextHour(t)))
                ELSE QuoteDown(s)],
             "ok",
             [s \in Symbols |-> LookupDown]),
      Client(ListingDown, [s \in Symbols |-> QuoteDown(s)], "ok",
             [s \in Symbols |-> LookupDown]) }

\* the schedule's record after a tick at clock value t that did what the
\* tick record says on the cache directory dir
CadenceAfter(c, t, done, dir) ==
    [next |-> t + Minutes(TickMinutes),
     ticks |-> c.ticks + 1,
     rankers |-> Bump(c.rankers, IF done.rankerCalls > 0 THEN {HourStart(t)} ELSE {}),
     qualified |-> Bump(c.qualified,
                        IF done.rankerCalls > 0
                        THEN {k \in CadenceKeys : InFundingWindow(k - t, 15, 30)}
                        ELSE {}),
     writes |-> Bump(c.writes, done.written),
     loads |-> Bump(c.loads, SeqRange(done.loads)),
     found |-> Bump(c.found, {k \in SeqRange(done.loads) :
                                 load_cached_symbols(dir, k) # <<>>}),
     fetched |-> Bump(c.fetched, {done.fetches[i].funding_time :
                                     i \in 1 .. Len(done.fetches)})]

\* Before the schedule starts, the record of the next settlement instant may
\* already be in the cache, stored as the cache's own callers store it
CadenceSeed ==
    /\ cadence = <<>>
    /\ now = StartTime
    /\ cache = <<>>
    /\ \E symbols_data \in StoreInputs :
          cache' = cache_top_symbols(cache, symbols_data, NextHour(StartTime)).dir
    /\ UNCHANGED <<now, tick, keysRead, driver, collect, probes, extras>>

\* Time passes until the next tick is due; the first tick comes at any
\* moment of the first five minutes
CadenceSleep ==
    /\ now < MaxTime
    /\ IF cadence = <<>> THEN now + 1 < StartTime + Minutes(TickMinutes)
       ELSE now < cadence[1].next
    /\ now' = now + 1
    /\ tick' = NoTick
    /\ UNCHANGED <<cache, keysRead, driver, collect, probes, extras>>

\* A tick of the schedule: log_funding_snapshot(client, config), five
\* minutes after the tick before it
CadenceTick ==
    /\ IF cadence = <<>> THEN now < StartTime + Minutes(TickMinutes)
       ELSE now = cadence[1].next
    /\ tick.kind = "none"
    /\ \E x \in IF RankingActive(MinuteOf(now)) THEN CadenceAnswers(now) ELSE {<<>>} :
          \E ranked \in {IF RankingActive(MinuteOf(now))
                         THEN fetch_top_symbols(now, x, ConfigTopN, 15, 30)
                         ELSE <<>>} :
             \E r \in {log_funding_snapshot(now, cache, ranked, {}, keysRead)} :
                /\ tick' = r.tick
                /\ cache' = r.dir
                /\ keysRead' = keysRead \cup SeqRange(r.tick.loads)
                /\ cadence' = << CadenceAfter(IF cadence = <<>> THEN NoCadence
                                              ELSE cadence[1],
                                              now, r.tick, r.dir) >>
    /\ UNCHANGED <<now, driver, collect, probes, dataDir, sinkCall, gather>>

NextCadence == CadenceSeed \/ CadenceSleep \/ CadenceTick

SpecCadence == Init /\ [][NextCadence]_vars

\* C26: ranking happens once per hour: over the ticks of a five-minute
\* schedule the Ranker is invoked in at most one tick of each clock hour, and
\* the cache record of each settlement instant is written in at most one tick.
C26_RankOncePerHour ==
    cadence # <<>> =>
        \A k \in CadenceKeys :
            /\ cadence[1].rankers[k] <= 1
            /\ cadence[1].writes[k] <= 1

\* C27: a cache record is read once: over the ticks of a five-minute
\* schedule the record of a settlement instant is loaded, and the Fetcher
\* run for its symbols, in at most one tick.
C27_ReadOnce ==
    cadence # <<>> =>
        \A k \in CadenceKeys :
            /\ cadence[1].found[k] <= 1
            /\ cadence[1].fetched[k] <= 1

\* C28: the windows absorb the cadence: whatever the moment of the first tick
\* of a five-minute schedule, for every settlement instant T whose windows
\* the schedule lives through, a tick has invoked the Ranker while a symbol
\* settling at T qualifies (once T - 15 minutes has passed) and a tick has
\* fallen into the collection window of T and loaded its record (once
\* T + 30 minutes has passed), so that T is collected: the Fetcher has run
\* for a record that held entries.
C28_WindowsAbsorbCadence ==
    cadence # <<>> =>
        \A T \in CadenceKeys :
            /\ (T - Minutes(30) >= StartTime /\ now > T - Minutes(15)) =>
                  cadence[1].qualified[T] >= 1
            /\ (T + Minutes(15) >= StartTime /\ now > T + Minutes(30)) =>
                  /\ cadence[1].loads[T] >= 1
                  /\ cadence[1].found[T] >= 1 => cadence[1].fetched[T] >= 1

\* ---------------------------------------------------------------------------
\* Bulk funding-rate fetch (_gather_funding_rates and its tasks)
\* ---------------------------------------------------------------------------

\* the most symbols a bulk fetch is called with
MaxSymbols == 5

\* the largest max_concurrent_requests a bulk fetch is called with
MaxLimit == 2

\* the tasks of the batch that starts after `first` symbols, batches of size
\* batch_size over count symbols: symbols[i:i+batch_size]
BatchOf(first, batch_size, count) == first + 1 .. Min2(first + batch_size, count)

\* _gather_funding_rates that sizes its semaphore and its batches by the
\* number of symbols
GatherStart_unbounded(count, max_concurrent_requests) ==
    IF max_concurrent_requests = 0
    THEN [count |-> count, max_concurrent_requests |-> max_concurrent_requests,
          permits |-> 0, batch_size |-> 0, first |-> 0, batch |-> 0, pauses |-> 0,
          tasks |-> [k \in 1 .. count |-> "pending"], results |-> <<>>,
          phase |-> "raised"]
    ELSE [count |-> count, max_concurrent_requests |-> max_concurrent_requests,
          permits |-> count, batch_size |-> count,
          first |-> 0, batch |-> IF count > 0 THEN 1 ELSE 0, pauses |-> 0,
          tasks |-> [k \in 1 .. count |-> "created"],
          results |-> <<>>,
          phase |-> IF count > 0 THEN "gathering" ELSE "returned"]

\* _gather_funding_rates(symbols, max_concurrent_requests) up to its first
\* await, for count symbols: the semaphore (line 81), batch_size (line 85)
\* and the tasks of the first batch (lines 87-92).  range() with step 0
\* raises ValueError; without symbols the loop body never runs.
GatherStart(count, max_concurrent_requests) ==
    IF max_concurrent_requests = 0
    THEN [count |-> count, max_concurrent_requests |-> max_concurrent_requests,
          permits |-> 0, batch_size |-> 0, first |-> 0, batch |-> 0, pauses |-> 0,
          tasks |-> [k \in 1 .. count |-> "pending"], results |-> <<>>,
          phase |-> "raised"]
    ELSE [count |-> count, max_concurrent_requests |-> max_concurrent_requests,
          permits |-> max_concurrent_requests, batch_size |-> max_concurrent_requests,
          first |-> 0, batch |-> IF count > 0 THEN 1 ELSE 0, pauses |-> 0,
          tasks |-> [k \in 1 .. count |->
                        IF k \in BatchOf(0, max_concurrent_requests, count)
                        THEN "created" ELSE "pending"],
          results |-> <<>>,
          phase |-> IF count > 0 THEN "gathering" ELSE "returned"]

\* the results of the tasks in the given positions that are not empty, in
\* task order (line 93)
RECURSIVE BatchResults(_, _, _)
BatchResults(tasks, from, to) ==
    IF from > to THEN <<>>
    ELSE (IF tasks[from] = "ok" THEN <<from>> ELSE <<>>)
         \o BatchResults(tasks, from + 1, to)

\* the tasks of the batch after the current one created
WithNextBatch(g) ==
    [g EXCEPT !.first = g.first + g.batch_size,
              !.batch = g.batch + 1,
              !.tasks = [k \in 1 .. g.count |->
                            IF k \in BatchOf(g.first + g.batch_size, g.batch_size, g.count)
                            THEN "created" ELSE g.tasks[k]],
              !.phase = "gathering"]

\* AfterBatch that goes on to the next batch without the delay
AfterBatch_nodelay(g) ==
    LET extended == [g EXCEPT !.results = g.results
                                  \o BatchResults(g.tasks, g.first + 1,
                                                  Min2(g.first + g.batch_size, g.count))]
    IN  IF g.first + g.batch_size < g.count
        THEN WithNextBatch(extended)
        ELSE [extended EXCEPT !.phase = "returned"]

\* lines 93-100 once asyncio.gather has returned: the results are extended,
\* then asyncio.sleep(1.0) if symbols remain, else the loop ends
AfterBatch(g) ==
    LET extended == [g EXCEPT !.results = g.results
                                  \o BatchResults(g.tasks, g.first + 1,
                                                  Min2(g.first + g.batch_size, g.count))]
    IN  IF g.first + g.batch_size < g.count
        THEN [extended EXCEPT !.phase = "pause"]
        ELSE [extended EXCEPT !.phase = "returned"]

\* get_all_funding_rates_async(symbols, max_concurrent_requests) begins
GatherCall ==
    /\ gather = <<>>
    /\ \E count \in 0 .. MaxSymbols, max_concurrent_requests \in 0 .. MaxLimit :
          gather' = << GatherStart(count, max_concurrent_requests) >>
    /\ UNCHANGED <<now, cache, tick, keysRead, driver, collect, probes, dataDir,
                   sinkCall, cadence>>

\* A task enters `async with semaphore` (line 42) and issues its request
\* (line 45)
TaskAcquire ==
    /\ gather # <<>>
    /\ gather[1].phase = "gathering"
    /\ gather[1].permits > 0
    /\ \E k \in 1 .. gather[1].count :
          /\ gather[1].tasks[k] = "created"
          /\ gather' = << [gather[1] EXCEPT !.tasks[k] = "inflight",
                                            !.permits = @ - 1] >>
    /\ UNCHANGED <<now, cache, tick, keysRead, driver, collect, probes, dataDir,
                   sinkCall, cadence>>

\* The request of a task is answered or fails (lines 45-66): the task
\* returns its data or {} and leaves the semaphore
TaskComplete ==
    /\ gather # <<>>
    /\ \E k \in 1 .. gather[1].count, outcome \in {"ok", "empty"} :
          /\ gather[1].tasks[k] = "inflight"
          /\ gather' = << [gather[1] EXCEPT !.tasks[k] = outcome,
                                            !.permits = @ + 1] >>
    /\ UNCHANGED <<now, cache, tick, keysRead, driver, collect, probes, dataDir,
                   sinkCall, cadence>>

\* asyncio.gather returns when every task of the batch has returned
GatherBatchDone ==
    /\ gather # <<>>
    /\ gather[1].phase = "gathering"
    /\ \A k \in BatchOf(gather[1].first, gather[1].batch_size, gather[1].count) :
          gather[1].tasks[k] \in {"ok", "empty"}
    /\ gather' = << AfterBatch(gather[1]) >>
    /\ UNCHANGED <<now, cache, tick, keysRead, driver, collect, probes, dataDir,
                   sinkCall, cadence>>

\* asyncio.sleep(1.0) is over: the next round of the loop creates its tasks
GatherPauseOver ==
    /\ gather # <<>>
    /\ gather[1].phase = "pause"
    /\ gather' = << WithNextBatch([gather[1] EXCEPT !.pauses = @ + 1]) >>
    /\ UNCHANGED <<now, cache, tick, keysRead, driver, collect, probes, dataDir,
                   sinkCall, cadence>>

\* asyncio.run returns the results, or its exception is caught (lines
\* 215-220), and the call is over
GatherReturn ==
    /\ gather # <<>>
    /\ gather[1].phase \in {"returned", "raised"}
    /\ gather' = <<>>
    /\ UNCHANGED <<now, cache, tick, keysRead, driver, collect, probes, dataDir,
                   sinkCall, cadence>>

NextGather ==
    GatherCall \/ TaskAcquire \/ TaskComplete \/ GatherBatchDone \/ GatherPauseOver
    \/ GatherReturn

SpecGather == Init /\ [][NextGather]_vars

\* the batch a task belongs to, batches of max_concurrent_requests symbols
\* counted from 1
BatchNumber(k, size) == (k - 1) \div size + 1

\* the tasks whose request is in flight
InFlight == {k \in 1 .. gather[1].count : gather[1].tasks[k] = "inflight"}

\* the tasks whose request has been issued
Issued == {k \in 1 .. gather[1].count : gather[1].tasks[k] \in {"inflight", "ok", "empty"}}

\* C29: during the bulk fetch the number of per-symbol requests in flight at
\* one time never exceeds max_concurrent_requests.
C29_ConcurrencyCap ==
    gather # <<>> => Cardinality(InFlight) <= gather[1].max_concurrent_requests

\* C29 witness: more symbols than the cap allows at once, and as many
\* requests in flight as the cap allows
C29_Witness ==
    /\ gather # <<>>
    /\ gather[1].count > gather[1].max_concurrent_requests
    /\ gather[1].max_concurrent_requests = MaxLimit
    /\ Cardinality(InFlight) = MaxLimit

\* C30: the bulk fetch works through the symbols in consecutive batches of
\* max_concurrent_requests: when a request of a batch has been issued, every
\* request of every earlier batch has completed and the pause after each
\* earlier batch has elapsed; and when the fetch returns, every symbol's
\* request has completed and there was one pause between every two
\* consecutive batches.
C30_BatchesInOrder ==
    (gather # <<>> /\ gather[1].phase # "raised") =>
        LET g == gather[1]
            size == g.max_concurrent_requests
            batches == (g.count + size - 1) \div size
        IN  /\ \A k \in Issued :
                  /\ \A j \in 1 .. g.count :
                        BatchNumber(j, size) < BatchNumber(k, size)
                            => g.tasks[j] \in {"ok", "empty"}
                  /\ g.pauses >= BatchNumber(k, size) - 1
            /\ g.phase = "returned" =>
                  /\ \A k \in 1 .. g.count : g.tasks[k] \in {"ok", "empty"}
                  /\ g.pauses = IF batches > 0 THEN batches - 1 ELSE 0

\* C30 witness: a request of the third batch is in flight after two pauses
C30_Witness ==
    /\ gather # <<>>
    /\ gather[1].pauses = 2
    /\ \E k \in InFlight : BatchNumber(k, gather[1].max_concurrent_requests) = 3

\* C31: the cache is partitioned by settlement instant: distinct instants
\* have distinct cache files, and cache_top_symbols for an instant k leaves
\* the record of every other instant k' as it was: load_cached_symbols(k')
\* returns the same result after the call as before it.
C31_PartitionedByKey ==
    /\ \A k, k2 \in DOMAIN CacheFileNameAt :
          k # k2 => CacheFileNameAt[k] # CacheFileNameAt[k2]
    /\ (cacheCall # <<>> /\ cacheCall[1].op = "store") =>
          \A k2 \in CacheKeys \ {cacheCall[1].key} :
              LoadCachedSymbols(cacheDir.files, k2)
                  = LoadCachedSymbols(cacheCall[1].before.files, k2)

\* C31 witness: a store for one instant while the record of another instant
\* is in the cache with two entries, which a load still returns
C31_Witness ==
    /\ cacheCall # <<>>
    /\ cacheCall[1].op = "store"
    /\ \E k2 \in CacheKeys \ {cacheCall[1].key} :
          /\ Len(load_cached_symbols(cacheCall[1].before.files, k2)) = 2
          /\ Len(load_cached_symbols(cacheDir.files, k2)) = 2
          /\ load_cached_symbols(cacheDir.files, cacheCall[1].key)
                # load_cached_symbols(cacheDir.files, k2)

\* ---------------------------------------------------------------------------
\* Cache files in the old format
\* ---------------------------------------------------------------------------

\* Files of the old format, one bare symbol per line, also mixed with lines
\* of the current format, with an empty line and with blanks around a name
LegacyFiles ==
    { << AAA_USDT, BBB_USDT >>,
      << CCC_USDT, <<>>, CacheLine(PyDict(BBB_USDT, PyFloat(12))),
         <<" ">> \o AAA_USDT \o <<" ">>, CacheLine(PyDict(AAA_USDT, PyFloat(0 - 8))) >> }

\* The cache holds a file of the old format for a settlement instant
LegacyFile ==
    /\ cacheCall = <<>>
    /\ \E k \in CacheKeys, lines \in LegacyFiles :
          /\ cacheDir' = [exists |-> TRUE,
                          files |-> [f \in DOMAIN cacheDir.files \cup {CacheFileNameAt[k]} |->
                                       IF f = CacheFileNameAt[k] THEN lines
                                       ELSE cacheDir.files[f]]]
          /\ lastStored' = [lastStored EXCEPT ![k] = <<>>]
    /\ UNCHANGED <<now, cache, tick, keysRead, driver, collect, rank, cacheCall, extras>>

NextLegacy == LegacyFile \/ CacheStore \/ CacheLoad \/ CacheReturn

SpecLegacy == Init /\ [][NextLegacy]_vars

\* the lines of a file that hold something besides blanks
Filled(lines) ==
    LET filled(line) == Strip(line) # <<>>
    IN  SelectSeq(lines, filled)

\* the records cache_top_symbols can have written a line for
LineRecords == UNION {SeqRange(R) : R \in CacheRecords} \cup {PyDict(AAA_USDT, PyFloat(0 - 8))}

\* C33: load_cached_symbols returns one entry per non-empty line, in line
\* order: for a line that holds a bare symbol name and no funding-rate field
\* the symbol with fundingRate 0, and for a line SYMBOL,FUNDING_RATE the
\* record that was written to it.
C33_LegacyFormat ==
    (/\ cacheCall # <<>>
     /\ cacheCall[1].op = "load"
     /\ CacheFileNameAt[cacheCall[1].key] \in DOMAIN cacheCall[1].before.files) =>
        LET lines == Filled(cacheCall[1].before.files[CacheFileNameAt[cacheCall[1].key]])
            result == cacheCall[1].result
        IN  /\ cacheCall[1].raised = "none"
            /\ Len(result) = Len(lines)
            /\ \A i \in 1 .. Len(lines) :
                  IF \E j \in 1 .. Len(lines[i]) : lines[i][j] = ","
                  THEN \E d \in LineRecords :
                          CacheLine(d) = lines[i] /\ result[i] = d
                  ELSE /\ result[i].symbol = Strip(lines[i])
                       /\ result[i].fundingRate = PyInt(0)
                       /\ IsDict(result[i])

\* C33 witness: a load of a file with bare names, an empty line and lines
\* of the current format returned four entries, bare names with rate 0
C33_Witness ==
    /\ cacheCall # <<>>
    /\ cacheCall[1].op = "load"
    /\ cacheCall[1].result
         = << PyDict(CCC_USDT, PyInt(0)), PyDict(BBB_USDT, PyFloat(12)),
              PyDict(AAA_USDT, PyInt(0)), PyDict(AAA_USDT, PyFloat(0 - 8)) >>

\* the symbols of a ranker call whose quote arrived with a numeric fundingRate
SoundQuotes(run) ==
    {s \in SeqRange(run.symbols) :
        /\ run.client.quotes[s].status = "ok"
        /\ run.client.quotes[s].data.rate = "number"}

\* C32: a failure that affects the funding quote of one symbol (the request
\* fails, or the quote has no numeric fundingRate) makes the bulk operation
\* skip that symbol only: when it is asked for as many quotes as there are
\* symbols, it returns the quote of every other symbol, ranked by
\* |fundingRate| in descending order.
C32_QuoteFailureContained ==
    (/\ rank # <<>>
     /\ rank[1].client.bulk = "ok"
     /\ rank[1].top_n * 5 >= Len(rank[1].symbols)) =>
        LET top_rates == rank[1].top_rates
        IN  /\ {top_rates[i].symbol : i \in 1 .. Len(top_rates)} = SoundQuotes(rank[1])
            /\ \A i \in 1 .. Len(top_rates) - 1 :
                  AbsVal(top_rates[i].fundingRate) >= AbsVal(top_rates[i + 1].fundingRate)

LongPast(times, i, t) == times[i] < t /\ t - times[i] > HourLen

\* |hour of day of position i - hour of day of the reference instant|
HourGap(times, i, t) ==
    IF HourOf(times[i]) >= HourOf(t) THEN HourOf(times[i]) - HourOf(t)
    ELSE HourOf(t) - HourOf(times[i])

\* C35: in the list the funding clock returns for the instant t, every
\* instant more than one hour before t comes after every instant that is
\* not, the latter stand in non-decreasing order of the absolute difference
\* between their hour of day and t's, and the first element has the least
\* such difference.
C35_FundingTimesOrder ==
    LET times == FundingTimesAt[now]
        n == Len(times)
    IN  /\ \A i, j \in 1 .. n :
              (LongPast(times, i, now) /\ ~LongPast(times, j, now)) => j < i
        /\ \A i, j \in 1 .. n :
              (i < j /\ ~LongPast(times, i, now) /\ ~LongPast(times, j, now))
                  => HourGap(times, i, now) <= HourGap(times, j, now)
        /\ ~LongPast(times, 1, now)
        /\ \A j \in 1 .. n :
              ~LongPast(times, j, now)
                  => HourGap(times, 1, now) <= HourGap(times, j, now)

\* C35 witness: an invocation in the last hour of a day: the list starts at
\* 23:00 of that day, holds 00:00 of the next day with the difference 23,
\* and ends with instants more than an hour in the past
C35_Witness ==
    LET times == FundingTimesAt[now]
    IN  /\ tick.kind = "snapshot"
        /\ HourOf(now) = 23
        /\ times[1] = HourInstant(DayOf(now), 23)
        /\ \E i \in 2 .. Len(times) - 1 :
              /\ times[i] = HourInstant(DayOf(now) + 1, 0)
              /\ LongPast(times, i + 1, now)

\* The calls of the ranker's last run to the client method op, in call order
CallsTo(op) ==
    LET made(c) == c.op = op
    IN  SelectSeq(rank[1].calls, made)

\* The universe of a client: the symbols of the USDT entries of its listing,
\* none when the listing cannot be had
Universe(client) ==
    IF client.listing.status # "ok" THEN <<>>
    ELSE LET kept == {i \in 1 .. Len(client.listing.data) :
                          client.listing.data[i].quoteCoin = "USDT"}
             nth(k) == CHOOSE i \in kept : Cardinality({j \in kept : j < i}) = k - 1
         IN  [k \in 1 .. Cardinality(kept) |-> client.listing.data[nth(k)].symbol]

Scanned == SubSeq(rank[1].top_rates, 1, rank[1].scanned)

\* The answer of the fallback lookup for symbol s: 0 when it cannot be had
Resolved(s) ==
    LET response == rank[1].client.lookup[s]
    IN  IF response.status = "ok" THEN response.data ELSE 0

\* C37: for each scanned candidate the ranker takes the nextSettleTime of
\* the quote when it is nonzero and makes no lookup; when it is absent or
\* zero it makes exactly one lookup for that symbol; a candidate whose
\* next settlement is 0 after the lookup is not returned.
C37_FallbackLookup ==
    rank # <<>> =>
        LET unsettled == {i \in 1 .. Len(Scanned) : Scanned[i].nextSettleTime = 0}
            nth(k) == CHOOSE i \in unsettled :
                          Cardinality({j \in unsettled : j < i}) = k - 1
            lookups == CallsTo("get_next_funding_time")
        IN  /\ Len(lookups) = Cardinality(unsettled)
            /\ \A k \in 1 .. Len(lookups) :
                  lookups[k].symbols = <<Scanned[nth(k)].symbol>>
            /\ \A i \in unsettled :
                  Resolved(Scanned[i].symbol) = 0
                      => \A r \in 1 .. Len(rank[1].result) :
                            rank[1].result[r] # PyStr(Scanned[i].symbol)

\* C37 witness: a run scanned a candidate with the settlement in its quote
\* and returned it, and a candidate without it whose lookup failed
C37_Witness ==
    /\ rank # <<>>
    /\ Len(CallsTo("get_next_funding_time")) = 1
    /\ \E i, j \in 1 .. Len(Scanned) :
          /\ Scanned[i].nextSettleTime # 0
          /\ \E r \in 1 .. Len(rank[1].result) :
                rank[1].result[r] = PyStr(Scanned[i].symbol)
          /\ Scanned[j].nextSettleTime = 0
          /\ Resolved(Scanned[j].symbol) = 0

\* C38: every tick the driver fires reaches the phase checks of
\* log_funding_snapshot: the call is made with client and config, and no
\* tick fails before a window is evaluated.
C38_TickReachesPhases ==
    (driver.runs > 0 /\ tick # NoTick) => tick.kind = "snapshot"

\* The positions of get_next_funding_times(t) whose instant satisfies
\* 15 <= minutes from the instant to t <= 30
PostSettlement(t) ==
    {i \in 1 .. Len(FundingTimesAt[t]) :
        /\ Minutes(15) <= t - FundingTimesAt[t][i]
        /\ t - FundingTimesAt[t][i] <= Minutes(30)}

\* C39 as claimed: at most one instant of get_next_funding_times(now)
\* satisfies the post-settlement predicate, and whenever the minute of the
\* hour of now is one of 15..30 exactly one does, the top of now's hour.
C39_OnePostSettlementByMinute ==
    /\ Cardinality(PostSettlement(now)) <= 1
    /\ MinuteOf(now) \in 15 .. 30 =>
          /\ Cardinality(PostSettlement(now)) = 1
          /\ \A i \in PostSettlement(now) :
                FundingTimesAt[now][i] = HourInstant(DayOf(now), HourOf(now))

\* C39 as amended: at most one instant of get_next_funding_times(now)
\* satisfies the post-settlement predicate, and whenever now is at least 15
\* and at most 30 minutes after the top of its hour exactly one does, the
\* top of now's hour, also in the first hour of a day; after hh:30:00 none
\* does although the minute of the hour is still 30.
C39_OnePostSettlement ==
    LET top == HourInstant(DayOf(now), HourOf(now))
    IN  /\ Cardinality(PostSettlement(now)) <= 1
        /\ (Minutes(15) <= now - top /\ now - top <= Minutes(30)) =>
              /\ Cardinality(PostSettlement(now)) = 1
              /\ \A i \in PostSettlement(now) : FundingTimesAt[now][i] = top
        /\ (MinuteOf(now) = 30 /\ now - top > Minutes(30)) =>
              PostSettlement(now) = {}

\* C39 witness: an invocation between 00:15 and 00:30 finds 00:00 of its
\* day and nothing else
C39_Witness ==
    /\ tick.kind = "snapshot"
    /\ HourOf(now) = 0
    /\ MinuteOf(now) \in 15 .. 30
    /\ Cardinality(PostSettlement(now)) = 1
    /\ \E i \in PostSettlement(now) :
          FundingTimesAt[now][i] = HourInstant(DayOf(now), 0)

\* The next settlement of symbol s at the exchange x: the nextSettleTime of
\* its quote, or the answer of the lookup when the quote has none
SettlementOf(x, s) ==
    IF x.quotes[s].data.nextSettleTime # 0 THEN x.quotes[s].data.nextSettleTime
    ELSE IF x.lookup[s].status = "ok" THEN x.lookup[s].data ELSE 0

\* C40: with settlements on hour boundaries, the symbols a ranking tick
\* hands to the cache under the key K all have their next settlement at K,
\* whatever exchange answers gave the tick its ranked list.
C40_KeyContentAgreement ==
    (tick.kind = "snapshot" /\ tick.cacheKey # NoKey) =>
        \A x \in ExchangeAnswers(now), lag \in 0 .. MaxLag :
            fetch_top_symbols(now + lag, x, ConfigTopN, 15, 30) = tick.ranked =>
                \A i \in 1 .. Len(tick.ranked) : \A s \in Symbols :
                    tick.ranked[i] = PyStr(s) => SettlementOf(x, s) = tick.cacheKey

====
